---- MODULE Spec2Model ----
(***************************************************************************)
(* Model of the HTTP transport of the 1Claw SDK (src/src/http.ts): the     *)
(* cached bearer token with its single-flight refresh (ensureToken), the   *)
(* request handlers request() and requestOrThrow(), the x402 payment       *)
(* negotiation (handlePayment) and the error mapping (errorFromResponse).  *)
(*                                                                         *)
(* Scheduling follows the JavaScript event loop: callers run until their   *)
(* next await; the continuation of a settled promise is a microtask, and   *)
(* the completion of a fetch is a macrotask that runs only when no         *)
(* microtask is pending.  Calls made by user code (request,                *)
(* requestOrThrow, setToken), the signer and the reading of a body may     *)
(* take their step at any point.                                           *)
(*                                                                         *)
(* Amounts of money are in hundredths of a US dollar; times are in ms.     *)
(*                                                                         *)
(* Spec is the transport on its own, built with an agent's credentials or  *)
(* with none.  SpecClient is the transport inside an OneclawClient         *)
(* (client.ts): every combination of apiKey, agentId and token, with the   *)
(* key exchange the constructor starts for a user API key, and no signer.  *)
(***************************************************************************)
EXTENDS Integers, Sequences, FiniteSets, TLC

\* ---- bounds ----
NumCallers == 2
MaxExchanges == 2
MaxTicks == 1
MaxSetTokens == 1

\* ---- program constants ----
REFRESH_BUFFER_MS == 60000

Callers == 1..NumCallers

\* the request the OneclawClient constructor makes for a user API key
Boot == NumCallers + 1
Slots == Callers \cup {Boot}

\* the handler each caller invokes: request() or requestOrThrow()
kind(p) == IF p = Boot \/ p % 2 = 1 THEN "request" ELSE "requestOrThrow"
NoToken == ""

VARIABLES
    apiKey,             \* TRUE iff config.apiKey is set
    agentId,            \* TRUE iff config.agentId is set
    agentCredentials,   \* TRUE iff this.agentCredentials is set
    signer,             \* TRUE iff config.x402Signer is set
    maxAutoPayUsd,      \* config.maxAutoPayUsd ?? 0 (hundredths of USD)
    token,              \* this.token (NoToken = undefined or "")
    tokenExpiresAt,     \* this.tokenExpiresAt
    refreshPromise,     \* 0 = undefined, a = the promise of refresh attempt a
    exchanges,          \* refresh attempts: the async closure of ensureToken
    exchangeCalls,      \* number of fetches of /v1/auth/agent-token so far
    now,                \* Date.now()
    setTokenCalls,      \* number of setToken() calls so far
    pc,                 \* position of each caller in its handler; of Boot,
                        \* "absent" when the constructor made no request
    waitOn,             \* refresh attempt the caller awaited (0 = none), kept until
                        \* the primary call has completed
    bearer,             \* token in the Authorization header of the primary call
    pay,                \* payment negotiation of the caller's request
    delivered,          \* the outcome delivered to a caller by the last step
    errRes,             \* the response handed to errorFromResponse on its own
    errOut,             \* what that call returned or threw
    twin,               \* request() and requestOrThrow() run one after the other
                        \* from the same client state: the first run's record
    auth,               \* the AuthResource method that a caller has invoked
    codec,              \* a function of cmek.ts exercised on its own
    sub,                \* a subscription made with approvals.subscribe
    mcp,                \* a tool call given to McpHandler.handle
    xpay                \* a call of x402.withPayment

vars == <<apiKey, agentId, agentCredentials, signer, maxAutoPayUsd, token, tokenExpiresAt,
          refreshPromise, exchanges, exchangeCalls, now, setTokenCalls,
          pc, waitOn, bearer, pay, delivered, errRes, errOut, twin, auth, codec,
          sub, mcp, xpay>>

\* the library functions exercised on their own, apart from the transport
aside == <<errRes, errOut, twin, auth, codec, sub, mcp, xpay>>

config == <<apiKey, agentId, agentCredentials, signer, maxAutoPayUsd>>
store == <<token, tokenExpiresAt, refreshPromise, exchanges, exchangeCalls>>

\* ---- tokens ----
\* Tokens a caller may install with setToken, and the token of the config.
\* JwtShape gives what decodeExpiry finds when it takes the string apart.
UserTokens == {"u_exp180", "u_twoparts"}
ConfigTokens == {NoToken, "u_exp180"}

\* access_token returned by the user-key exchange of the constructor
BootToken == "k1"

\* tokens whose payload cannot be decoded or holds no numeric exp
OddTokens == {"u_badpayload", "u_noexp"}

JwtShape(jwt) ==
    CASE jwt = "u_exp180"     -> [parts |-> 3, decodable |-> TRUE, expIsNumber |-> TRUE, exp |-> 180]
      [] jwt = "k1"           -> [parts |-> 3, decodable |-> TRUE, expIsNumber |-> TRUE, exp |-> 180]
      [] jwt = "a1"           -> [parts |-> 3, decodable |-> TRUE, expIsNumber |-> TRUE, exp |-> 180]
      [] jwt = "u_twoparts"   -> [parts |-> 2, decodable |-> FALSE, expIsNumber |-> FALSE, exp |-> 0]
      [] jwt = "u_badpayload" -> [parts |-> 3, decodable |-> FALSE, expIsNumber |-> FALSE, exp |-> 0]
      [] jwt = "u_noexp"      -> [parts |-> 3, decodable |-> TRUE, expIsNumber |-> FALSE, exp |-> 0]
      [] OTHER                -> [parts |-> 1, decodable |-> FALSE, expIsNumber |-> FALSE, exp |-> 0]

\* a token without a readable exp taken as one that does not expire
decodeExpiry_trusting(jwt) ==
    LET s == JwtShape(jwt) IN
    IF s.parts = 3 /\ s.decodable /\ s.expIsNumber THEN s.exp * 1000 ELSE 1000 * 1000 * 1000

\* http.ts 52-61
decodeExpiry(jwt) ==
    LET s == JwtShape(jwt) IN
    IF s.parts # 3 THEN 0
    ELSE IF ~s.decodable THEN 0
    ELSE IF s.expIsNumber THEN s.exp * 1000 ELSE 0

\* access_token returned by the a-th exchange (each exchange mints a new one)
ExchangeToken(a) == CASE a = 1 -> "x1" [] a = 2 -> "x2" [] a = 3 -> "x3" [] OTHER -> "x4"
ExpiresIn == {30, 120}

NoError == [type |-> "none", status |-> 0, attempt |-> 0]
RefreshError(a, status) == [type |-> "Error:Agent token refresh failed", status |-> status, attempt |-> a]
NetworkError(a) == [type |-> "TypeError:fetch failed", status |-> 0, attempt |-> a]
JsonError(a) == [type |-> "SyntaxError:json", status |-> 0, attempt |-> a]

\* body of the POST to /v1/auth/agent-token (http.ts 76-79)
NoBody == [agent_id |-> "", api_key |-> ""]
NoExchange == [state |-> "none", error |-> NoError, body |-> NoBody]

\* ---- payment data ----
NaN == [nan |-> TRUE, v |-> 0]
Num(n) == [nan |-> FALSE, v |-> n]

\* parseFloat on the price strings the server sends
parseFloat(s) ==
    CASE s = "0.50" -> Num(50)
      [] s = "1.00" -> Num(100)
      [] s = "5.00" -> Num(500)
      [] OTHER      -> NaN

\* a > b on JavaScript numbers: false when either side is NaN
Greater(a, b) == ~a.nan /\ ~b.nan /\ a.v > b.v

Option(price, scheme) == [price |-> price, scheme |-> scheme, network |-> "base"]
NoOption == [price |-> "", scheme |-> "", network |-> ""]

NoProof == [x402Version |-> 0, scheme |-> "", network |-> "", payload |-> ""]

\* ---- responses of the resource server ----
\* Retry-After as Headers.get gives it: null when the header is not there
NoHeader == "null"

\* parsable: the body is JSON; isNull: it is the JSON value null; detail,
\* message, error: string fields of a JSON object ("" = the field is not
\* there); accepts: the options of a payment requirement
Response(status, parsable, accepts, detail) ==
    [status |-> status, parsable |-> parsable, accepts |-> accepts,
     detail |-> detail, bodyUsed |-> FALSE,
     isNull |-> FALSE, message |-> "", error |-> "", retryAfter |-> NoHeader,
     x402Version |-> 0]
NoResponse == Response(0, FALSE, <<>>, "")

\* the calls one request has made: primary call with its RequestInit and
\* its response, signer call and its argument, retry with its RequestInit
\* and its X-PAYMENT header
NoPay ==
    LET NoInit == [method |-> "", path |-> "", body |-> "", idempotencyKey |-> "",
                   authorization |-> NoToken]
    IN  [path |-> "", primaryCalls |-> 0, primaryRes |-> NoResponse, signerCalls |-> 0,
         signedWith |-> NoOption, retries |-> 0, xPayment |-> NoProof,
         init |-> NoInit, retryInit |-> NoInit]

\* x402Version: the protocol version of a payment requirement
PaymentResponses ==
    { Response(402, FALSE, <<>>, ""),
      [Response(402, TRUE, <<>>, "") EXCEPT !.x402Version = 1],
      [Response(402, TRUE, <<Option("free", "exact")>>, "") EXCEPT !.x402Version = 1],
      [Response(402, TRUE, <<Option("0.50", "exact"), Option("5.00", "upto")>>, "")
          EXCEPT !.x402Version = 2],
      [Response(402, TRUE, <<Option("5.00", "exact"),
                             [Option("0.50", "upto") EXCEPT !.network = "solana"]>>, "")
          EXCEPT !.x402Version = 1] }

PlainResponses ==
    { Response(200, TRUE, <<>>, ""),
      Response(200, FALSE, <<>>, ""),
      Response(204, FALSE, <<>>, ""),
      Response(401, TRUE, <<>>, "denied"),
      Response(500, FALSE, <<>>, "") }

Responses == PlainResponses \cup PaymentResponses

ok(res) == res.status >= 200 /\ res.status <= 299

\* ---- messages and results ----
Msg(text, a, b) == [text |-> text, a |-> a, b |-> b]
NoMsg == Msg("", Num(0), Num(0))
HttpMsg(status) == Msg("HTTP", Num(status), Num(0))

Result(how, type, status, msg, data, error, requirement) ==
    [how |-> how, type |-> type, status |-> status, msg |-> msg,
     data |-> data, error |-> error, requirement |-> requirement]
NoResult == Result("none", "none", 0, NoMsg, "none", NoError, <<>>)

\* the switch without its case 402
ErrorType_no402(status) ==
    CASE status = 400 -> "validation_error"
      [] status = 401 \/ status = 403 -> "auth_error"
      [] status = 404 -> "not_found"
      [] status = 429 -> "rate_limit"
      [] OTHER -> IF status >= 500 THEN "server_error" ELSE "unknown"

\* errors.ts: the error class chosen for a status
ErrorType(status) ==
    CASE status = 400 -> "validation_error"
      [] status = 401 \/ status = 403 -> "auth_error"
      [] status = 402 -> "payment_required"
      [] status = 404 -> "not_found"
      [] status = 429 -> "rate_limit"
      [] OTHER -> IF status >= 500 THEN "server_error" ELSE "unknown"

\* parseInt(s, 10) on the values of Retry-After the server sends: the
\* leading digits, NaN when there are none
parseInt(s) ==
    CASE s = "0"   -> Num(0)
      [] s = "5"   -> Num(5)
      [] s = "1.5" -> Num(1)
      [] OTHER     -> NaN

\* retryAfterMs of a RateLimitError
NoRetryAfter == [defined |-> FALSE, ms |-> Num(0)]

\* the header multiplied by 1 instead of 1000
\* errors.ts 248-251: retryHeader ? parseInt(retryHeader, 10) * 1000 : undefined
retryAfterMs(header) ==
    IF header = NoHeader \/ header = ""
    THEN NoRetryAfter
    ELSE LET n == parseInt(header) IN
         [defined |-> TRUE, ms |-> IF n.nan THEN NaN ELSE Num(n.v * 1000)]

\* the error of status 402 built without the body
requirementOf_dropped(res, readable) == <<>>

\* errors.ts 241-244: the body of a 402 response as PaymentRequirement
requirementOf(res, readable) ==
    IF res.status = 402 /\ readable THEN res.accepts ELSE <<>>

\* errors.ts errorFromResponse: res.json() fails on a body that is not JSON
\* and on a body that was already read; the body then counts as {}.  A body
\* that is the JSON value null replaces {} and reading body.detail throws.
errorFromResponse(res) ==
    LET readable == res.parsable /\ ~res.bodyUsed
        detail == IF readable THEN res.detail ELSE ""
        msgField == IF readable THEN res.message ELSE ""
        errorField == IF readable THEN res.error ELSE ""
        message == IF detail # "" THEN Msg(detail, Num(0), Num(0))
                   ELSE IF msgField # "" THEN Msg(msgField, Num(0), Num(0))
                   ELSE IF errorField # "" THEN Msg(errorField, Num(0), Num(0))
                   ELSE HttpMsg(res.status)
    IN IF readable /\ res.isNull
       THEN [threw |-> TRUE, type |-> "TypeError:null body", status |-> 0, msg |-> NoMsg,
             requirement |-> <<>>, retryAfterMs |-> NoRetryAfter]
       ELSE [threw |-> FALSE, type |-> ErrorType(res.status), status |-> res.status,
             msg |-> message,
             requirement |-> requirementOf(res, readable),
             retryAfterMs |-> IF res.status = 429 THEN retryAfterMs(res.retryAfter)
                              ELSE NoRetryAfter]

\* http.ts handlePayment up to its first await after the body is read:
\* what the negotiator decides for a payment-required response.

\* the last option taken instead of the first
firstAccept_last(accepts) == accepts[Len(accepts)]

\* line 234: requirement.accepts?.[0]
firstAccept(accepts) == accepts[1]

\* the check of line 238 left out
ExceedsLimit_never(price) == FALSE

\* line 238: the price is over a positive limit
ExceedsLimit(price) == maxAutoPayUsd > 0 /\ Greater(price, Num(maxAutoPayUsd))

\* the check of line 244 left out
AutoPayDisabled_never == FALSE

\* line 244: auto-pay is switched off
AutoPayDisabled == maxAutoPayUsd = 0

\* the negotiator failing closed: a payment error instead of the response
onUnparsable_throws(used) ==
    [act |-> "throw", res |-> used, accept |-> NoOption, msg |-> NoMsg]

\* lines 228-232: the body is not JSON, the original response is returned
onUnparsable(used) ==
    [act |-> "original", res |-> used, accept |-> NoOption, msg |-> NoMsg]

\* an option the limit allows taken when the first one is over the limit
handlePayment_fallback(originalRes) ==
    LET used == [originalRes EXCEPT !.bodyUsed = TRUE] IN
    IF ~originalRes.parsable
    THEN onUnparsable(used)
    ELSE IF Len(originalRes.accepts) = 0 \/ ~signer
    THEN [act |-> "original", res |-> used, accept |-> NoOption, msg |-> NoMsg]
    ELSE LET payable == {i \in 1..Len(originalRes.accepts) :
                           ~ExceedsLimit(parseFloat(originalRes.accepts[i].price))}
             accept == IF payable = {} THEN firstAccept(originalRes.accepts)
                       ELSE originalRes.accepts[CHOOSE i \in payable : \A j \in payable : i <= j]
             price == parseFloat(accept.price)
         IN IF ExceedsLimit(price)
            THEN [act |-> "throw", res |-> used, accept |-> accept,
                  msg |-> Msg("exceeds auto-pay limit", price, Num(maxAutoPayUsd))]
            ELSE IF AutoPayDisabled
            THEN [act |-> "throw", res |-> used, accept |-> accept,
                  msg |-> Msg("required. Enable auto-pay", price, Num(0))]
            ELSE [act |-> "sign", res |-> used, accept |-> accept, msg |-> NoMsg]

\* lines 222-251: the body is read, the first option is taken and its price
\* is checked against maxAutoPayUsd
handlePayment(originalRes) ==
    LET used == [originalRes EXCEPT !.bodyUsed = TRUE] IN
    IF ~originalRes.parsable
    THEN onUnparsable(used)
    ELSE IF Len(originalRes.accepts) = 0 \/ ~signer
    THEN [act |-> "original", res |-> used, accept |-> NoOption, msg |-> NoMsg]
    ELSE LET accept == firstAccept(originalRes.accepts)
             price == parseFloat(accept.price)
         IN IF ExceedsLimit(price)
            THEN [act |-> "throw", res |-> used, accept |-> accept,
                  msg |-> Msg("exceeds auto-pay limit", price, Num(maxAutoPayUsd))]
            ELSE IF AutoPayDisabled
            THEN [act |-> "throw", res |-> used, accept |-> accept,
                  msg |-> Msg("required. Enable auto-pay", price, Num(0))]
            ELSE [act |-> "sign", res |-> used, accept |-> accept, msg |-> NoMsg]

\* the test for 204 left out: every success body is parsed
noContent_parsed(res) == FALSE

\* lines 144 / 194: res.status === 204, tested before the body is read
noContent(res) == res.status = 204

\* requestOrThrow() reading the body before its test for 204
Classify_bodyFirst(k, res) ==
    IF ~ok(res)
    THEN LET err == errorFromResponse(res) IN
         IF err.threw
         THEN Result("throw", err.type, 0, NoMsg, "none", NoError, <<>>)
         ELSE IF k = "request"
         THEN Result("envelope", err.type, res.status, err.msg, "null", NoError, <<>>)
         ELSE Result("throw", err.type, err.status, err.msg, "none", NoError, err.requirement)
    ELSE IF k = "request"
    THEN IF noContent(res) THEN Result("envelope", "none", 204, NoMsg, "null", NoError, <<>>)
         ELSE IF ~res.parsable
         THEN Result("throw", "SyntaxError:json", 0, NoMsg, "none", NoError, <<>>)
         ELSE Result("envelope", "none", res.status, NoMsg, "body", NoError, <<>>)
    ELSE IF ~res.parsable
    THEN Result("throw", "SyntaxError:json", 0, NoMsg, "none", NoError, <<>>)
    ELSE IF noContent(res) THEN Result("return", "none", 204, NoMsg, "undefined", NoError, <<>>)
    ELSE Result("return", "none", res.status, NoMsg, "body", NoError, <<>>)

\* http.ts request()/requestOrThrow() after the last network call:
\* the outcome delivered for the final response.  The envelope of request()
\* takes type, message and detail from the error and nothing else (lines
\* 133-141); requestOrThrow() throws the error object itself.
Classify(k, res) ==
    IF ~ok(res)
    THEN LET err == errorFromResponse(res) IN
         IF err.threw
         THEN Result("throw", err.type, 0, NoMsg, "none", NoError, <<>>)
         ELSE IF k = "request"
         THEN Result("envelope", err.type, res.status, err.msg, "null", NoError, <<>>)
         ELSE Result("throw", err.type, err.status, err.msg, "none", NoError, err.requirement)
    ELSE IF noContent(res)
    THEN IF k = "request"
         THEN Result("envelope", "none", 204, NoMsg, "null", NoError, <<>>)
         ELSE Result("return", "none", 204, NoMsg, "undefined", NoError, <<>>)
    ELSE IF ~res.parsable
    THEN Result("throw", "SyntaxError:json", 0, NoMsg, "none", NoError, <<>>)
    ELSE IF k = "request"
         THEN Result("envelope", "none", res.status, NoMsg, "body", NoError, <<>>)
         ELSE Result("return", "none", res.status, NoMsg, "body", NoError, <<>>)

\* The handler of caller p returns or throws r: `delivered` shows the outcome
\* with the locals of the invocation, which end with it.  It holds the
\* outcome of the step just taken; every other step resets it.
\* `final` is the response the outcome was made from (NoResponse when the
\* handler threw before it had one).
NoDelivery == [caller |-> 0, kind |-> "request", waitOn |-> 0, bearer |-> NoToken,
               pay |-> NoPay, final |-> NoResponse, result |-> NoResult]

\* auth.ts: a method of AuthResource awaits request(); when request()
\* returns an envelope the method goes on, when it throws the method throws
authContinuation(r) ==
    IF r.data = "body" THEN "then_data"
    ELSE IF r.type # "none" THEN "then_error"
    ELSE "then_null"

\* client.ts 93-106: the constructor's request is followed by a then()
\* callback when it returns an envelope and by an empty catch() when it throws
afterDelivery(p, r) ==
    IF p = Boot /\ r.how = "envelope"
    THEN IF r.data = "body" THEN "then_data" ELSE "then_null"
    ELSE IF p = auth.caller /\ r.how = "envelope"
    THEN authContinuation(r)
    ELSE "done"

Deliver(p, payNow, final, r) ==
    /\ delivered' = [caller |-> p, kind |-> kind(p), waitOn |-> waitOn[p],
                     bearer |-> bearer[p], pay |-> payNow, final |-> final,
                     result |-> r]
    /\ pc' = [pc EXCEPT ![p] = afterDelivery(p, r)]
    /\ waitOn' = [waitOn EXCEPT ![p] = 0]
    /\ bearer' = [bearer EXCEPT ![p] = NoToken]
    /\ pay' = [pay EXCEPT ![p] = NoPay]

\* ---- initial state ----
\* HttpClient constructor (http.ts 24-36) and field initializers (15-20)
HttpClientConstructed ==
    /\ apiKey \in BOOLEAN
    /\ agentId \in BOOLEAN
    /\ agentCredentials = (agentId /\ apiKey)
    /\ signer \in BOOLEAN
    /\ maxAutoPayUsd \in {-100, 0, 100}
    /\ (~signer => maxAutoPayUsd = 0)
    /\ token \in ConfigTokens
    /\ tokenExpiresAt = 0
    /\ refreshPromise = 0
    /\ exchanges = [a \in 1..MaxExchanges |-> NoExchange]
    /\ exchangeCalls = 0
    /\ now = 0
    /\ setTokenCalls = 0
    /\ waitOn = [p \in Slots |-> 0]
    /\ bearer = [p \in Slots |-> NoToken]
    /\ pay = [p \in Slots |-> NoPay]
    /\ delivered = NoDelivery

\* errorFromResponse has not been called
NoErrOut == [threw |-> FALSE, type |-> "not called", status |-> 0, msg |-> NoMsg,
             requirement |-> <<>>, retryAfterMs |-> NoRetryAfter]

\* the fields of the client that requests read and write
StoreOf(t, e, r, x, n) ==
    [token |-> t, tokenExpiresAt |-> e, refreshPromise |-> r, exchanges |-> x,
     exchangeCalls |-> n]
NoStore == StoreOf(NoToken, 0, 0, [a \in 1..MaxExchanges |-> NoExchange], 0)

\* no comparison of the two handlers is under way
NoTwin == [phase |-> "idle", start |-> NoStore, first |-> NoDelivery, after |-> NoStore]

\* what a function of cmek.ts returned or threw; cryptoCalls counts the
\* calls made to crypto.subtle
Returned(bytes, calls) == [threw |-> "", bytes |-> bytes, cryptoCalls |-> calls]
Thrown(error, calls) == [threw |-> error, bytes |-> <<>>, cryptoCalls |-> calls]

\* no function of cmek.ts is exercised; a key is its length in bytes and a
\* number that stands for its content
NoCodec == [fn |-> "none", stage |-> "idle", plaintext |-> <<>>,
            keyBytes |-> [len |-> 0, id |-> 0], iv |-> <<>>, blob |-> <<>>,
            tampered |-> "", decryptKey |-> [len |-> 0, id |-> 0],
            b64 |-> <<>>, hasBuffer |-> FALSE, out |-> Returned(<<>>, 0)]

\* no subscription has been made: active is the flag of the closure, pc
\* the place of the polling loop, caught the number of times its catch
\* clause ran, now the clock, doneAt the time the last list request
\* settled, wakeAt the time the timer is set for
NoSub == [pc |-> "none", active |-> FALSE, interval |-> 0, polls |-> 0, inFlight |-> 0,
          settled |-> 0, callbacks |-> 0, lastArgs |-> <<>>, caught |-> 0, now |-> 0,
          doneAt |-> 0, wakeAt |-> 0]

\* no tool call has been made: calls counts the calls of handle, called is
\* the tool whose handler was invoked, how the way the promise of handle
\* settled, isError and text its result
NoMcp == [calls |-> 0, stage |-> "none", toolName |-> "", called |-> "", how |-> "",
          isError |-> FALSE, text |-> <<>>]

\* withPayment has not been called: argSigner says that a signer was
\* passed, authorization is the bearer of the headers, fetches counts the
\* calls of fetch, first is the first response, signedBy and signedWith
\* the signer called and its argument, retryAuthorization and xPayment the
\* headers of the retry, result what the call returned or threw
NoXpay == [pc |-> "none", argSigner |-> FALSE, authorization |-> NoToken, fetches |-> 0,
           first |-> NoResponse, signerCalls |-> 0, signedBy |-> "", signedWith |-> NoOption,
           retries |-> 0, retryAuthorization |-> NoToken, xPayment |-> NoProof,
           result |-> NoResult]

\* no method of AuthResource has been invoked
NoAuth == [caller |-> 0, method |-> "none", phase |-> "idle", saw |-> "", got |-> NoToken]

\* no library function is exercised on its own
AsideIdle ==
    /\ errRes = NoResponse
    /\ errOut = NoErrOut
    /\ twin = NoTwin
    /\ auth = NoAuth
    /\ codec = NoCodec
    /\ sub = NoSub
    /\ mcp = NoMcp
    /\ xpay = NoXpay

\* the transport on its own: an agent's credentials or none, no constructor request
Init ==
    /\ HttpClientConstructed
    /\ AsideIdle
    /\ apiKey = agentId
    /\ pc = [p \in Slots |-> IF p = Boot THEN "absent" ELSE "idle"]

\* ---- the event loop ----
Settled(a) == exchanges[a].state \in {"resolved", "rejected"}

\* a continuation is queued as a microtask: network completions wait for it
MicrotaskPending ==
    \/ \E a \in 1..MaxExchanges : exchanges[a].state = "settled"
    \/ \E p \in Slots : pc[p] = "ensured"
    \/ \E p \in Callers : pc[p] = "ensure_wait" /\ Settled(waitOn[p])
    \/ \E p \in Slots : pc[p] \in {"then_data", "then_null", "then_error"}

\* ---- ensureToken (http.ts 63-94) ----
\* the comparison of line 65 with <= : a token at the buffer counts as fresh
TokenFresh_atBuffer == token # NoToken /\ now <= tokenExpiresAt - REFRESH_BUFFER_MS

\* line 65: the cached token is usable without a refresh
TokenFresh == token # NoToken /\ now < tokenExpiresAt - REFRESH_BUFFER_MS

\* line 64 left out: a client without agent credentials refreshes as well
NeedsNoRefresh_credentialsIgnored == TokenFresh

\* lines 64-65: the early returns
NeedsNoRefresh == ~agentCredentials \/ TokenFresh

\* line 67 left out: every stale caller starts an exchange of its own
RefreshInFlight_never == FALSE

\* line 67: a refresh is in flight
RefreshInFlight == refreshPromise # 0

\* line 72 without the assignment: the started attempt is not remembered
startedHandle_lost(a) == 0

\* line 72: the promise of the started attempt is kept in this.refreshPromise
startedHandle(a) == a

\* the body with the two credentials in each other's place
exchangeBody_swapped ==
    [agent_id |-> IF apiKey THEN "config.apiKey" ELSE "undefined",
     api_key |-> IF agentId THEN "config.agentId" ELSE "undefined"]

\* lines 76-79: the credentials sent to the exchange endpoint
exchangeBody ==
    [agent_id |-> IF agentId THEN "config.agentId" ELSE "undefined",
     api_key |-> IF apiKey THEN "config.apiKey" ELSE "undefined"]

\* the part of ensureToken that runs before its first await
ensureToken(p) ==
    IF NeedsNoRefresh
    THEN /\ pc' = [pc EXCEPT ![p] = "ensured"]
         /\ UNCHANGED <<waitOn, refreshPromise, exchanges, exchangeCalls>>
    ELSE IF RefreshInFlight
    THEN /\ pc' = [pc EXCEPT ![p] = "ensure_wait"]
         /\ waitOn' = [waitOn EXCEPT ![p] = refreshPromise]
         /\ UNCHANGED <<refreshPromise, exchanges, exchangeCalls>>
    ELSE /\ exchangeCalls < MaxExchanges
         /\ exchangeCalls' = exchangeCalls + 1
         /\ exchanges' = [exchanges EXCEPT ![exchangeCalls + 1].state = "fetching",
                                           ![exchangeCalls + 1].body = exchangeBody]
         /\ refreshPromise' = startedHandle(exchangeCalls + 1)
         /\ pc' = [pc EXCEPT ![p] = "ensure_wait"]
         /\ waitOn' = [waitOn EXCEPT ![p] = exchangeCalls + 1]

\* request(method, path) / requestOrThrow(method, path) up to `await this.ensureToken()`
Call(p) ==
    /\ pc[p] = "idle"
    /\ ensureToken(p)
    /\ delivered' = NoDelivery
    /\ UNCHANGED <<aside, config, token, tokenExpiresAt, now, setTokenCalls, bearer, pay>>

\* the closure clearing the cache when it throws
keptOnFailure_cleared == <<NoToken, 0>>

\* lines 74-86: the closure throws before the assignments of lines 87-88,
\* this.token and this.tokenExpiresAt are as they were
keptOnFailure == <<token, tokenExpiresAt>>

\* the exchange fetch completes: a non-success status or a network error
\* makes the closure throw, a success status leads to `await res.json()`
ExchangeResponds(a, outcome) ==
    /\ exchanges[a].state = "fetching"
    /\ ~MicrotaskPending
    /\ token' = IF outcome = "ok" THEN token ELSE keptOnFailure[1]
    /\ tokenExpiresAt' = IF outcome = "ok" THEN tokenExpiresAt ELSE keptOnFailure[2]
    /\ exchanges' = [exchanges EXCEPT ![a] =
           IF outcome = "ok" THEN [@ EXCEPT !.state = "parsing"]
           ELSE IF outcome = "network" THEN [@ EXCEPT !.state = "settled", !.error = NetworkError(a)]
           ELSE [@ EXCEPT !.state = "settled", !.error = RefreshError(a, 401)]]
    /\ delivered' = NoDelivery
    /\ UNCHANGED <<aside, config, refreshPromise, exchangeCalls, now,
                   setTokenCalls, pc, waitOn, bearer, pay>>

\* the expiry written in a later step than the token: not in this one
installedExpiry_deferred(expires_in) == tokenExpiresAt

\* line 88: Date.now() + data.expires_in * 1000
installedExpiry(expires_in) == now + expires_in * 1000

\* lines 86-88: the body is parsed and token and expiry are installed
ExchangeParsed(a, expires_in) ==
    /\ exchanges[a].state = "parsing"
    /\ token' = ExchangeToken(a)
    /\ tokenExpiresAt' = installedExpiry(expires_in)
    /\ exchanges' = [exchanges EXCEPT ![a].state = "settled"]
    /\ delivered' = NoDelivery
    /\ UNCHANGED <<aside, config, refreshPromise, exchangeCalls, now, setTokenCalls,
                   pc, waitOn, bearer, pay>>

\* line 86: res.json() rejects on a body that is not JSON
ExchangeParseFails(a) ==
    /\ exchanges[a].state = "parsing"
    /\ exchanges' = [exchanges EXCEPT ![a].state = "settled", ![a].error = JsonError(a)]
    /\ token' = keptOnFailure[1]
    /\ tokenExpiresAt' = keptOnFailure[2]
    /\ delivered' = NoDelivery
    /\ UNCHANGED <<aside, config, refreshPromise, exchangeCalls, now,
                   setTokenCalls, pc, waitOn, bearer, pay>>

\* the handle cleared with then() instead of finally(): a failed attempt keeps it
finallyHandle_keptOnFailure(a) == IF exchanges[a].error = NoError THEN 0 ELSE refreshPromise

\* line 90: what the finally callback leaves in this.refreshPromise
finallyHandle(a) == 0

\* the failure swallowed by a catch() in front of the waiters
finallyOutcome_swallowed(a) == "resolved"

\* lines 89-91: how the promise returned by finally() settles
finallyOutcome(a) == IF exchanges[a].error = NoError THEN "resolved" ELSE "rejected"

\* lines 89-91: the finally callback runs after the closure has settled
Finally(a) ==
    /\ exchanges[a].state = "settled"
    /\ refreshPromise' = finallyHandle(a)
    /\ exchanges' = [exchanges EXCEPT ![a].state = finallyOutcome(a)]
    /\ delivered' = NoDelivery
    /\ UNCHANGED <<aside, config, token, tokenExpiresAt, exchangeCalls, now, setTokenCalls,
                   pc, waitOn, bearer, pay>>

\* the await left out: the caller goes on while the exchange is running
awaitDone_notAwaited(p) == TRUE

\* a promise that is never settled for the one who awaits it
awaitDone_never(p) == FALSE

\* lines 68 and 93: `await this.refreshPromise` lets the caller continue
\* only once the promise has settled
awaitDone(p) == Settled(waitOn[p])

\* lines 68 and 93: `await this.refreshPromise` continues or rethrows;
\* a rejection leaves ensureToken and request()/requestOrThrow() as it is
EnsureSettled(p) ==
    /\ pc[p] = "ensure_wait"
    /\ awaitDone(p)
    /\ IF exchanges[waitOn[p]].state = "rejected"
       THEN Deliver(p, pay[p], NoResponse,
                    Result("throw", exchanges[waitOn[p]].error.type, 0, NoMsg, "none",
                           exchanges[waitOn[p]].error, <<>>))
       ELSE /\ pc' = [pc EXCEPT ![p] = "ensured"]
            /\ delivered' = NoDelivery
            /\ UNCHANGED <<waitOn, bearer, pay>>
    /\ UNCHANGED <<aside, config, store, now, setTokenCalls>>

\* ---- request() / requestOrThrow() (http.ts 101-199) ----
\* auth.ts: the endpoint of each method of AuthResource
AuthPath(m) ==
    CASE m = "login"       -> "/v1/auth/token"
      [] m = "signup"      -> "/v1/auth/signup"
      [] m = "agentToken"  -> "/v1/auth/agent-token"
      [] m = "apiKeyToken" -> "/v1/auth/api-key-token"
      [] m = "google"      -> "/v1/auth/google"
      [] m = "logout"      -> "/v1/auth/token"
      [] OTHER             -> ""

\* the path argument: a resource for callers, the user-key exchange for the
\* constructor (client.ts 94-98)
requestPath(p) ==
    IF p = Boot THEN "/v1/auth/api-key-token"
    ELSE IF p = auth.caller THEN AuthPath(auth.method)
    ELSE "/v1/resource"

\* lines 111-125 / 170-184: headers are built from this.token and the
\* primary call is issued.  The constructor's request was the first to
\* reach its await, so its continuation runs before those of the callers.
\* method, body and headers that the caller passes: a POST with a body and
\* an Idempotency-Key (agents.ts submitTransaction), a DELETE (logout), the
\* POSTs of the constructor and of the auth methods, and a plain GET; the
\* two runs that are compared with each other are given the same options
requestOptions(p) ==
    LET posts == p = 1 \/ twin # NoTwin IN
    [method |-> IF p = auth.caller /\ auth.method = "logout" THEN "DELETE"
                ELSE IF p = Boot \/ p = auth.caller \/ posts THEN "POST" ELSE "GET",
     path |-> "",
     body |-> IF p = Boot \/ (p = auth.caller /\ auth.method # "logout") THEN "credentials"
              ELSE IF posts /\ p # auth.caller THEN "tx" ELSE "",
     idempotencyKey |-> IF posts /\ p # auth.caller THEN "key" ELSE "",
     authorization |-> NoToken]

IssuePrimary(p) ==
    /\ pc[p] = "ensured"
    /\ p \in Callers => pc[Boot] # "ensured"
    /\ bearer' = [bearer EXCEPT ![p] = token]
    /\ pay' = [pay EXCEPT ![p].primaryCalls = @ + 1, ![p].path = requestPath(p),
                          ![p].init = [requestOptions(p) EXCEPT !.path = requestPath(p),
                                                                !.authorization = token]]
    /\ pc' = [pc EXCEPT ![p] = "primary"]
    /\ delivered' = NoDelivery
    /\ UNCHANGED <<aside, config, store, now, setTokenCalls, waitOn>>

\* the headers built again for the retry, from the token cached by then
retryInit_rebuilt(p) == [pay[p].init EXCEPT !.authorization = token]

\* line 265: fetch(url, { ...init, headers: retryHeaders }) with the url
\* and the init of the primary call; retryHeaders are init.headers and
\* X-PAYMENT
retryInit(p) == pay[p].init

\* lines 127-129 / 186-188: the negotiator is entered
PaymentTriggered(res) == res.status = 402 /\ signer

\* the await of line 251 left out: the retry follows the signer call at once
afterSignerCall_notAwaited == "retry"

\* line 251: `await this.signer.signPayment(accept)` suspends the handler
\* until the signer has returned
afterSignerCall == "signing"

\* lines 125-153 / 184-198: the primary call completes; a payment-required
\* response goes through handlePayment, which returns the original response,
\* throws, or calls the signer
PrimaryResponds(p, res) ==
    /\ pc[p] = "primary"
    /\ ~MicrotaskPending
    /\ IF PaymentTriggered(res)
       THEN LET d == handlePayment(res)
                got == [pay[p] EXCEPT !.primaryRes = res]
            IN
            CASE d.act = "original" -> Deliver(p, got, d.res, Classify(kind(p), d.res))
              [] d.act = "throw" ->
                   Deliver(p, got, NoResponse,
                           Result("throw", "payment_required", 402, d.msg, "none",
                                  NoError, res.accepts))
              [] d.act = "sign" ->
                   /\ pc' = [pc EXCEPT ![p] = afterSignerCall]
                   /\ pay' = [pay EXCEPT ![p] = [got EXCEPT !.signerCalls = @ + 1,
                                                            !.signedWith = d.accept]]
                   /\ waitOn' = [waitOn EXCEPT ![p] = 0]
                   /\ delivered' = NoDelivery
                   /\ UNCHANGED bearer
       ELSE Deliver(p, [pay[p] EXCEPT !.primaryRes = res], res, Classify(kind(p), res))
    /\ UNCHANGED <<aside, config, store, now, setTokenCalls>>

\* line 125 / 184: fetch rejects, the handler rethrows
PrimaryFails(p) ==
    /\ pc[p] = "primary"
    /\ ~MicrotaskPending
    /\ Deliver(p, pay[p], NoResponse,
               Result("throw", "TypeError:fetch failed", 0, NoMsg, "none", NoError, <<>>))
    /\ UNCHANGED <<aside, config, store, now, setTokenCalls>>

\* lines 251-265: the signer returns a signature and the retry is issued
\* with the headers of the primary call plus X-PAYMENT
SignerReturns(p) ==
    /\ pc[p] = "signing"
    /\ pay' = [pay EXCEPT ![p].retries = @ + 1,
                          ![p].retryInit = retryInit(p),
                          ![p].xPayment = [x402Version |-> pay[p].primaryRes.x402Version,
                                           scheme |-> pay[p].signedWith.scheme,
                                           network |-> pay[p].signedWith.network,
                                           payload |-> "sig"]]
    /\ pc' = [pc EXCEPT ![p] = "retry"]
    /\ delivered' = NoDelivery
    /\ UNCHANGED <<aside, config, store, now, setTokenCalls, waitOn, bearer>>

\* line 251: signPayment rejects, the handler rethrows
SignerThrows(p) ==
    /\ pc[p] = "signing"
    /\ Deliver(p, pay[p], NoResponse,
               Result("throw", "Error:signer", 0, NoMsg, "none", NoError, <<>>))
    /\ UNCHANGED <<aside, config, store, now, setTokenCalls>>

\* lines 128-153 / 187-198: the retry's response is the final response
RetryResponds(p, res) ==
    /\ pc[p] = "retry"
    /\ ~MicrotaskPending
    /\ Deliver(p, pay[p], res, Classify(kind(p), res))
    /\ UNCHANGED <<aside, config, store, now, setTokenCalls>>

\* line 265: the retry's fetch rejects, the handler rethrows
RetryFails(p) ==
    /\ pc[p] = "retry"
    /\ ~MicrotaskPending
    /\ Deliver(p, pay[p], NoResponse,
               Result("throw", "TypeError:fetch failed", 0, NoMsg, "none", NoError, <<>>))
    /\ UNCHANGED <<aside, config, store, now, setTokenCalls>>

\* ---- setToken (http.ts 39-42) ----
setToken(t) ==
    /\ token' = t
    /\ tokenExpiresAt' = decodeExpiry(t)

\* setToken called by user code (auth.ts: login, logout, ...)
SetToken(t) ==
    /\ setTokenCalls < MaxSetTokens
    /\ setTokenCalls' = setTokenCalls + 1
    /\ setToken(t)
    /\ delivered' = NoDelivery
    /\ UNCHANGED <<aside, config, refreshPromise, exchanges, exchangeCalls, now,
                   pc, waitOn, bearer, pay>>

\* ---- OneclawClient constructor (client.ts 68-107) ----
\* the condition without its last conjunct: a key exchange also for an agent
autoAuthenticates_alsoForAgent == apiKey /\ token = NoToken

\* client.ts 73: config.apiKey && !config.token && !config.agentId
autoAuthenticates == apiKey /\ token = NoToken /\ ~agentId

\* client.ts 69-75: the transport is constructed and, for a user API key,
\* request() is called and runs up to `await this.ensureToken()`, which
\* returns at once because there are no agent credentials; no signer
InitClient ==
    /\ HttpClientConstructed
    /\ AsideIdle
    /\ ~signer
    /\ pc = [p \in Slots |-> IF p # Boot THEN "idle"
                              ELSE IF autoAuthenticates THEN "ensured" ELSE "absent"]

\* client.ts 99-106: the then() callback installs the access_token of the
\* envelope's data when there is one
BootThen(hasToken) ==
    /\ pc[Boot] \in {"then_data", "then_null"}
    /\ pc' = [pc EXCEPT ![Boot] = "done"]
    /\ IF pc[Boot] = "then_data" /\ hasToken
       THEN setToken(BootToken)
       ELSE UNCHANGED <<token, tokenExpiresAt>>
    /\ delivered' = NoDelivery
    /\ UNCHANGED <<aside, config, refreshPromise, exchanges, exchangeCalls, now, setTokenCalls,
                   waitOn, bearer, pay>>

\* ---- the clock ----
Tick ==
    /\ now < MaxTicks * REFRESH_BUFFER_MS
    /\ now' = now + REFRESH_BUFFER_MS
    /\ delivered' = NoDelivery
    /\ UNCHANGED <<aside, config, store, setTokenCalls, pc, waitOn, bearer, pay>>

Next ==
    \/ \E p \in Callers : Call(p)
    \/ \E a \in 1..MaxExchanges, o \in {"ok", "401", "network"} : ExchangeResponds(a, o)
    \/ \E a \in 1..MaxExchanges, e \in ExpiresIn : ExchangeParsed(a, e)
    \/ \E a \in 1..MaxExchanges : ExchangeParseFails(a)
    \/ \E a \in 1..MaxExchanges : Finally(a)
    \/ \E p \in Callers : EnsureSettled(p)
    \/ \E p \in Callers : IssuePrimary(p)
    \/ \E p \in Callers, res \in Responses : PrimaryResponds(p, res)
    \/ \E p \in Callers : PrimaryFails(p)
    \/ \E p \in Callers : SignerReturns(p)
    \/ \E p \in Callers : SignerThrows(p)
    \/ \E p \in Callers, res \in Responses : RetryResponds(p, res)
    \/ \E p \in Callers : RetryFails(p)
    \/ \E t \in UserTokens \cup {NoToken} : SetToken(t)
    \/ Tick

Spec == Init /\ [][Next]_vars

\* a transport that can make all three calls: it has agent credentials to
\* exchange and a signer to pay with up to a positive limit
InitLive == Init /\ agentCredentials /\ signer /\ maxAutoPayUsd > 0 /\ token = NoToken

\* the event loop runs every continuation that is ready, and every fetch
\* and every signer call that was issued completes (the runtime and the
\* collaborators; calls, setToken and the clock are under no obligation)
SpecLive ==
    /\ InitLive
    /\ [][Next]_vars
    /\ WF_vars(\E a \in 1..MaxExchanges :
                  \/ \E o \in {"ok", "401", "network"} : ExchangeResponds(a, o)
                  \/ \E e \in ExpiresIn : ExchangeParsed(a, e)
                  \/ ExchangeParseFails(a)
                  \/ Finally(a))
    /\ \A p \in Callers :
          WF_vars(\/ EnsureSettled(p)
                  \/ IssuePrimary(p)
                  \/ \E res \in Responses : PrimaryResponds(p, res)
                  \/ PrimaryFails(p)
                  \/ SignerReturns(p)
                  \/ SignerThrows(p)
                  \/ \E res \in Responses : RetryResponds(p, res)
                  \/ RetryFails(p))

NextClient ==
    \/ \E p \in Callers : Call(p)
    \/ \E a \in 1..MaxExchanges, o \in {"ok", "401", "network"} : ExchangeResponds(a, o)
    \/ \E a \in 1..MaxExchanges, e \in ExpiresIn : ExchangeParsed(a, e)
    \/ \E a \in 1..MaxExchanges : ExchangeParseFails(a)
    \/ \E a \in 1..MaxExchanges : Finally(a)
    \/ \E p \in Callers : EnsureSettled(p)
    \/ \E p \in Slots : IssuePrimary(p)
    \/ \E p \in Slots, res \in Responses : PrimaryResponds(p, res)
    \/ \E p \in Slots : PrimaryFails(p)
    \/ \E hasToken \in BOOLEAN : BootThen(hasToken)
    \/ \E t \in UserTokens \cup OddTokens \cup {NoToken} : SetToken(t)
    \/ Tick

SpecClient == InitClient /\ [][NextClient]_vars

\* ---- library functions on their own ----
transport == <<config, store, now, setTokenCalls, pc, waitOn, bearer, pay, delivered>>

\* a transport on which nothing is called
TransportIdle ==
    /\ HttpClientConstructed
    /\ ~apiKey
    /\ ~agentId
    /\ ~signer
    /\ token = NoToken
    /\ pc = [p \in Slots |-> IF p = Boot THEN "absent" ELSE "idle"]

\* errorFromResponse (errors.ts 219-259) applied to non-success responses
ErrorStatuses == {302, 400, 401, 402, 403, 404, 418, 429, 500, 503}
RetryAfterValues == {NoHeader, "", "0", "5", "Wed, 21 Oct 2026 07:28:00 GMT"}

\* bodies: not JSON, the JSON value null, and JSON objects with and without
\* the fields detail, message and error
ErrorBodies ==
    { [parsable |-> FALSE, isNull |-> FALSE, detail |-> "", message |-> "", error |-> ""],
      [parsable |-> TRUE, isNull |-> TRUE, detail |-> "", message |-> "", error |-> ""],
      [parsable |-> TRUE, isNull |-> FALSE, detail |-> "", message |-> "", error |-> ""],
      [parsable |-> TRUE, isNull |-> FALSE, detail |-> "denied", message |-> "from message", error |-> ""],
      [parsable |-> TRUE, isNull |-> FALSE, detail |-> "", message |-> "from message", error |-> "from error"],
      [parsable |-> TRUE, isNull |-> FALSE, detail |-> "", message |-> "", error |-> "from error"] }

ErrorResponses ==
    { [Response(st, b.parsable,
                IF st = 402 /\ b.parsable /\ ~b.isNull THEN <<Option("0.50", "exact")>> ELSE <<>>,
                b.detail)
         EXCEPT !.isNull = b.isNull, !.message = b.message, !.error = b.error,
                !.retryAfter = h] :
      st \in ErrorStatuses, b \in ErrorBodies, h \in RetryAfterValues }

InitErrors ==
    /\ TransportIdle
    /\ errRes \in ErrorResponses
    /\ errOut = NoErrOut
    /\ twin = NoTwin
    /\ auth = NoAuth
    /\ codec = NoCodec
    /\ sub = NoSub
    /\ mcp = NoMcp
    /\ xpay = NoXpay

\* err = await errorFromResponse(res)
ErrorFromResponse ==
    /\ errOut = NoErrOut
    /\ errOut' = errorFromResponse(errRes)
    /\ UNCHANGED <<transport, errRes, twin, auth, codec, sub, mcp, xpay>>

NextErrors == ErrorFromResponse

SpecErrors == InitErrors /\ [][NextErrors]_vars

\* ---- request() and requestOrThrow() side by side ----
\* Caller 1 runs request() to its end; the client is put back into the
\* state in which that run began, and caller 2 runs requestOrThrow() with the
\* server, the signer and the network behaving as they did in the first run.
InitTwin ==
    /\ HttpClientConstructed
    /\ apiKey = agentId
    /\ pc = [p \in Slots |-> IF p = Boot THEN "absent" ELSE "idle"]
    /\ errRes = NoResponse
    /\ errOut = NoErrOut
    /\ twin = [NoTwin EXCEPT !.phase = "setup"]
    /\ auth = NoAuth
    /\ codec = NoCodec
    /\ sub = NoSub
    /\ mcp = NoMcp
    /\ xpay = NoXpay

\* the caller whose handler is running
Runner == CASE twin.phase = "first" -> 1 [] twin.phase = "second" -> 2 [] OTHER -> 0

\* the client state in which both runs begin
TwinBegin ==
    /\ twin.phase = "setup"
    /\ twin' = [twin EXCEPT !.phase = "first",
                            !.start = StoreOf(token, tokenExpiresAt, refreshPromise,
                                              exchanges, exchangeCalls)]
    /\ delivered' = NoDelivery
    /\ UNCHANGED <<errRes, errOut, auth, codec, sub, mcp, xpay, config, store, now, setTokenCalls, pc, waitOn, bearer, pay>>

\* request() is over: its outcome and the state it left are recorded and the
\* client is put back
TwinRestart ==
    /\ twin.phase = "first"
    /\ delivered.caller = 1
    /\ twin' = [twin EXCEPT !.phase = "second",
                            !.first = delivered,
                            !.after = StoreOf(token, tokenExpiresAt, refreshPromise,
                                              exchanges, exchangeCalls)]
    /\ token' = twin.start.token
    /\ tokenExpiresAt' = twin.start.tokenExpiresAt
    /\ refreshPromise' = twin.start.refreshPromise
    /\ exchanges' = twin.start.exchanges
    /\ exchangeCalls' = twin.start.exchangeCalls
    /\ delivered' = NoDelivery
    /\ UNCHANGED <<errRes, errOut, auth, codec, sub, mcp, xpay, config, now, setTokenCalls, pc, waitOn, bearer, pay>>

\* in the second run the exchange endpoint answers as it did in the first
SameExchange(a, outcome) ==
    \/ Runner = 1
    \/ /\ Runner = 2
       /\ twin.after.exchanges[a].state # "none"
       /\ outcome = (CASE twin.after.exchanges[a].error = NetworkError(a) -> "network"
                       [] twin.after.exchanges[a].error = RefreshError(a, 401) -> "401"
                       [] OTHER -> "ok")

SameExchangeBody(a, expires_in) ==
    \/ Runner = 1
    \/ /\ Runner = 2
       /\ twin.after.exchanges[a].error = NoError
       /\ twin.after.tokenExpiresAt = now + expires_in * 1000

SameExchangeParseFailure(a) ==
    \/ Runner = 1
    \/ Runner = 2 /\ twin.after.exchanges[a].error = JsonError(a)

\* in the second run the resource server, the network and the signer behave
\* as they did in the first
SamePrimary(res) ==
    \/ Runner = 1
    \/ Runner = 2 /\ twin.first.pay.primaryCalls = 1 /\ res = twin.first.pay.primaryRes

SamePrimaryFailure ==
    \/ Runner = 1
    \/ Runner = 2 /\ twin.first.pay.primaryCalls = 1 /\ twin.first.pay.primaryRes = NoResponse

SameSigner(returns) ==
    \/ Runner = 1
    \/ Runner = 2 /\ twin.first.pay.signerCalls = 1 /\ returns = (twin.first.pay.retries = 1)

SameRetry(res) ==
    \/ Runner = 1
    \/ Runner = 2 /\ twin.first.pay.retries = 1 /\ res = twin.first.final

NextTwin ==
    \/ twin.phase = "setup" /\ \E t \in UserTokens \cup {NoToken} : SetToken(t)
    \/ twin.phase = "setup" /\ Tick
    \/ TwinBegin
    \/ Runner # 0 /\ Call(Runner)
    \/ \E a \in 1..MaxExchanges, o \in {"ok", "401", "network"} :
          SameExchange(a, o) /\ ExchangeResponds(a, o)
    \/ \E a \in 1..MaxExchanges, e \in ExpiresIn :
          SameExchangeBody(a, e) /\ ExchangeParsed(a, e)
    \/ \E a \in 1..MaxExchanges : SameExchangeParseFailure(a) /\ ExchangeParseFails(a)
    \/ \E a \in 1..MaxExchanges : Finally(a)
    \/ Runner # 0 /\ EnsureSettled(Runner)
    \/ Runner # 0 /\ IssuePrimary(Runner)
    \/ \E res \in Responses : Runner # 0 /\ SamePrimary(res) /\ PrimaryResponds(Runner, res)
    \/ Runner # 0 /\ SamePrimaryFailure /\ PrimaryFails(Runner)
    \/ Runner # 0 /\ SameSigner(TRUE) /\ SignerReturns(Runner)
    \/ Runner # 0 /\ SameSigner(FALSE) /\ SignerThrows(Runner)
    \/ \E res \in Responses : Runner # 0 /\ SameRetry(res) /\ RetryResponds(Runner, res)
    \/ Runner # 0 /\ SameRetry(NoResponse) /\ RetryFails(Runner)
    \/ TwinRestart

SpecTwin == InitTwin /\ [][NextTwin]_vars

\* ---- AuthResource (resources/auth.ts) ----
\* Caller 1 invokes a method of AuthResource, which calls request() on the
\* shared transport; the other callers make requests of their own.
AuthMethods == {"login", "signup", "agentToken", "apiKeyToken", "google"}

\* access_token of the response: a JWT that expires at 180 s, and a string
\* that is no JWT
AccessTokens == {"a1", "jwt-123"}

\* the test of the response left out
storesToken_unchecked(state, t) == TRUE

\* auth.ts 36, 54, 71, 87, 103: if (res.data?.access_token)
storesToken(state, t) == state = "then_data" /\ t # NoToken

\* the token cleared only when the server accepted the revocation
clearsToken_onSuccess(state) == state # "then_error"

\* auth.ts 126-127: setToken("") follows the request whatever its envelope
clearsToken(state) == TRUE

InitAuth ==
    /\ HttpClientConstructed
    /\ apiKey = agentId
    /\ ~signer
    /\ pc = [p \in Slots |-> IF p = Boot THEN "absent" ELSE "idle"]
    /\ errRes = NoResponse
    /\ errOut = NoErrOut
    /\ twin = NoTwin
    /\ auth \in {[NoAuth EXCEPT !.caller = 1, !.method = m, !.phase = "pending"] :
                  m \in AuthMethods \cup {"logout"}}
    /\ codec = NoCodec
    /\ sub = NoSub
    /\ mcp = NoMcp
    /\ xpay = NoXpay

\* auth.ts 36-39 / 126-128: request() has returned its envelope to the
\* method, which stores or clears the token and returns the envelope;
\* t is the access_token of the data ("" when there is none)
AuthThen(t) ==
    LET p == auth.caller IN
    /\ p # 0
    /\ pc[p] \in {"then_data", "then_null", "then_error"}
    /\ (pc[p] # "then_data" \/ auth.method = "logout") => t = NoToken
    /\ pc' = [pc EXCEPT ![p] = "done"]
    /\ IF auth.method = "logout"
       THEN IF clearsToken(pc[p]) THEN setToken(NoToken)
            ELSE UNCHANGED <<token, tokenExpiresAt>>
       ELSE IF storesToken(pc[p], t) THEN setToken(t)
            ELSE UNCHANGED <<token, tokenExpiresAt>>
    /\ auth' = [auth EXCEPT !.phase = "returned", !.saw = pc[p], !.got = t]
    /\ delivered' = NoDelivery
    /\ UNCHANGED <<errRes, errOut, twin, codec, sub, mcp, xpay, config, refreshPromise, exchanges, exchangeCalls,
                   now, setTokenCalls, waitOn, bearer, pay>>

NextAuth ==
    \/ \E p \in Callers : Call(p)
    \/ \E a \in 1..MaxExchanges, o \in {"ok", "401", "network"} : ExchangeResponds(a, o)
    \/ \E a \in 1..MaxExchanges, e \in ExpiresIn : ExchangeParsed(a, e)
    \/ \E a \in 1..MaxExchanges : ExchangeParseFails(a)
    \/ \E a \in 1..MaxExchanges : Finally(a)
    \/ \E p \in Callers : EnsureSettled(p)
    \/ \E p \in Callers : IssuePrimary(p)
    \/ \E p \in Callers, res \in PlainResponses : PrimaryResponds(p, res)
    \/ \E p \in Callers : PrimaryFails(p)
    \/ \E t \in AccessTokens \cup {NoToken} : AuthThen(t)
    \/ \E t \in UserTokens \cup {NoToken} : SetToken(t)
    \/ Tick

SpecAuth == InitAuth /\ [][NextAuth]_vars

\* ------------------------------------------------------------------------
\* cmek.ts: client-side envelope encryption and its base64 transport
\* encoding. The blob is a sequence of bytes laid out as on the wire:
\* [1 byte version][12 bytes IV][ciphertext][16 bytes GCM tag].
\* ------------------------------------------------------------------------

VERSION_BYTE == 1
IV_LENGTH == 12
KEY_LENGTH == 32
\* the length of the GCM tag: the 16 of cmekDecrypt's length test
TAG_LENGTH == 16

\* the longest plaintext, in bytes
MaxPlainLen == 2
\* the longest base64 text before its padding, in characters
MaxB64Len == 3

\* every sequence over S of at most n elements
SeqsUpTo(S, n) == UNION {[1..k -> S] : k \in 0..n}

RECURSIVE SumBytes(_)
SumBytes(s) == IF s = <<>> THEN 0 ELSE Head(s) + SumBytes(Tail(s))

\* crypto.subtle.importKey("raw", keyBytes, AES-GCM): an AES key is 128,
\* 192 or 256 bits long, any other length is a DataError
importKey(keyBytes) == keyBytes.len \in {16, 24, KEY_LENGTH}

\* AES-GCM stands as a stream cipher with a tag: the keystream depends on
\* the key, the IV and the position, the tag on the key, the IV and the
\* ciphertext, so that another key, another IV or a changed byte is detected
keystream(key, iv, i) == (101 * key.id + SumBytes(iv) + 7 * i) % 256

gcmTag(key, iv, ct) ==
    [j \in 1..TAG_LENGTH |-> (59 * key.id + SumBytes(iv) + 3 * SumBytes(ct) + 13 * j) % 256]

\* crypto.subtle.encrypt: the ciphertext followed by the tag
subtleEncrypt(key, iv, data) ==
    LET ct == [i \in 1..Len(data) |-> (data[i] + keystream(key, iv, i)) % 256]
    IN  ct \o gcmTag(key, iv, ct)

\* crypto.subtle.decrypt: an OperationError unless the tag verifies
subtleDecrypt(key, iv, data) ==
    IF Len(data) < TAG_LENGTH
    THEN [ok |-> FALSE, bytes |-> <<>>]
    ELSE LET ct == SubSeq(data, 1, Len(data) - TAG_LENGTH)
             tag == SubSeq(data, Len(data) - TAG_LENGTH + 1, Len(data))
         IN  IF tag # gcmTag(key, iv, ct)
             THEN [ok |-> FALSE, bytes |-> <<>>]
             ELSE [ok |-> TRUE,
                   bytes |-> [i \in 1..Len(ct) |->
                                (ct[i] + 256 - keystream(key, iv, i)) % 256]]

\* cmekEncrypt(plaintext, keyBytes), with the IV that getRandomValues drew
cmekEncrypt(plaintext, keyBytes, iv) ==
    IF ~importKey(keyBytes)
    THEN Thrown("DataError", 1)
    ELSE Returned(<<VERSION_BYTE>> \o iv \o subtleEncrypt(keyBytes, iv, plaintext), 2)

tooShort_inclusive(blob) == Len(blob) <= 1 + IV_LENGTH + TAG_LENGTH

\* blob.length < 1 + IV_LENGTH + 16
tooShort(blob) == Len(blob) < 1 + IV_LENGTH + TAG_LENGTH

versionOk_any(blob) == TRUE

\* blob[0] === VERSION_BYTE
versionOk(blob) == blob[1] = VERSION_BYTE

\* cmekDecrypt(blob, keyBytes)
cmekDecrypt(blob, keyBytes) ==
    IF tooShort(blob)
    THEN Thrown("CMEK blob too short", 0)
    ELSE IF ~versionOk(blob)
    THEN Thrown("Unsupported CMEK version", 0)
    ELSE LET iv == SubSeq(blob, 2, 1 + IV_LENGTH)
             ciphertext == SubSeq(blob, 2 + IV_LENGTH, Len(blob))
         IN  IF ~importKey(keyBytes)
             THEN Thrown("DataError", 1)
             ELSE LET plaintext == subtleDecrypt(keyBytes, iv, ciphertext)
                  IN  IF plaintext.ok
                      THEN Returned(plaintext.bytes, 2)
                      ELSE Thrown("OperationError", 2)

\* the position of a character in the standard base64 alphabet, 64 for a
\* character outside it
B64Index(c) ==
    CASE c = "A" -> 0
      [] c = "D" -> 3
      [] c = "J" -> 9
      [] c = "Q" -> 16
      [] c = "U" -> 20
      [] OTHER -> 64

\* the bytes that a run of six-bit values holds: three for every four
\* values, one for two left over, two for three left over; the bits that do
\* not fill a byte are dropped
RECURSIVE SextetsToBytes(_)
SextetsToBytes(v) ==
    IF Len(v) >= 4
    THEN LET n == 262144 * v[1] + 4096 * v[2] + 64 * v[3] + v[4]
         IN  <<n \div 65536, (n \div 256) % 256, n % 256>>
                 \o SextetsToBytes(SubSeq(v, 5, Len(v)))
    ELSE IF Len(v) = 3
    THEN LET n == 4096 * v[1] + 64 * v[2] + v[3]
         IN  <<n \div 1024, (n \div 4) % 256>>
    ELSE IF Len(v) = 2
    THEN <<(64 * v[1] + v[2]) \div 16>>
    ELSE <<>>

\* the text up to its first "="
RECURSIVE BeforePadding(_)
BeforePadding(b64) ==
    IF b64 = <<>> \/ Head(b64) = "="
    THEN <<>>
    ELSE <<Head(b64)>> \o BeforePadding(Tail(b64))

\* Buffer.from(b64, "base64"): Node.js decodes what it can and never
\* throws; a character outside the alphabet is skipped and the padding
\* ends the text
BufferFromBase64(b64) ==
    LET kept == SelectSeq(BeforePadding(b64), LAMBDA c : B64Index(c) < 64)
    IN  Returned(SextetsToBytes([i \in 1..Len(kept) |-> B64Index(kept[i])]), 0)

\* atob(b64): ASCII whitespace is removed, one or two "=" are removed from
\* the end of a text whose length is a multiple of four, and then a length
\* of 4n+1 or a character outside the alphabet is an InvalidCharacterError
atob(b64) ==
    LET stripped == SelectSeq(b64, LAMBDA c : c # " ")
        n == Len(stripped)
        pads == IF n % 4 = 0 /\ n > 0 /\ stripped[n] = "="
                THEN IF stripped[n - 1] = "=" THEN 2 ELSE 1
                ELSE 0
        data == SubSeq(stripped, 1, n - pads)
    IN  IF Len(data) % 4 = 1 \/ \E i \in 1..Len(data) : B64Index(data[i]) = 64
        THEN Thrown("InvalidCharacterError", 0)
        ELSE Returned(SextetsToBytes([i \in 1..Len(data) |-> B64Index(data[i])]), 0)

\* fromBase64(b64) where Buffer is defined (Node.js) and where it is not
\* (a browser)
fromBase64(b64, hasBuffer) ==
    IF hasBuffer THEN BufferFromBase64(b64) ELSE atob(b64)

\* the keys the functions are exercised with: two of 32 bytes with
\* different contents and one of 31 bytes
Keys == {[len |-> KEY_LENGTH, id |-> 1], [len |-> KEY_LENGTH, id |-> 2],
         [len |-> KEY_LENGTH - 1, id |-> 1]}

\* the base64 texts: characters of the alphabet, one outside it and a
\* space, followed by no, one or two "="
B64Texts ==
    {body \o pad : body \in SeqsUpTo({"Q", "U", "J", "D", "!", " "}, MaxB64Len),
                   pad \in {<<>>, <<"=">>, <<"=", "=">>}}

\* what happens to a blob between cmekEncrypt and cmekDecrypt
Damages == {"cut_to_0", "cut_to_1", "cut_to_28", "cut_to_28_version_2",
            "version_0", "version_2", "last_byte", "iv_byte"}

Damaged(blob, how) ==
    CASE how = "cut_to_0" -> <<>>
      [] how = "cut_to_1" -> SubSeq(blob, 1, 1)
      [] how = "cut_to_28" -> SubSeq(blob, 1, IV_LENGTH + TAG_LENGTH)
      [] how = "cut_to_28_version_2" -> <<2>> \o SubSeq(blob, 2, IV_LENGTH + TAG_LENGTH)
      [] how = "version_0" -> <<0>> \o Tail(blob)
      [] how = "version_2" -> <<2>> \o Tail(blob)
      [] how = "last_byte" ->
            SubSeq(blob, 1, Len(blob) - 1) \o <<(blob[Len(blob)] + 1) % 256>>
      [] how = "iv_byte" -> <<blob[1], (blob[2] + 1) % 256>> \o SubSeq(blob, 3, Len(blob))

InitCodec ==
    /\ TransportIdle
    /\ errRes = NoResponse
    /\ errOut = NoErrOut
    /\ twin = NoTwin
    /\ auth = NoAuth
    /\ sub = NoSub
    /\ mcp = NoMcp
    /\ xpay = NoXpay
    /\ codec \in {[NoCodec EXCEPT !.fn = "cmek", !.stage = "start", !.plaintext = p,
                                  !.keyBytes = k, !.iv = iv] :
                    p \in SeqsUpTo({0, 255}, MaxPlainLen), k \in Keys,
                    iv \in {[i \in 1..IV_LENGTH |-> 0], [i \in 1..IV_LENGTH |-> 20 * i]}}
               \cup {[NoCodec EXCEPT !.fn = "fromBase64", !.stage = "start",
                                     !.b64 = t, !.hasBuffer = h] :
                       t \in B64Texts, h \in BOOLEAN}

\* await cmekEncrypt(plaintext, keyBytes)
CmekEncrypt ==
    /\ codec.fn = "cmek"
    /\ codec.stage = "start"
    /\ LET out == cmekEncrypt(codec.plaintext, codec.keyBytes, codec.iv)
       IN  codec' = [codec EXCEPT !.stage = IF out.threw = "" THEN "encrypted" ELSE "failed",
                                  !.blob = out.bytes,
                                  !.out = out]
    /\ UNCHANGED <<transport, errRes, errOut, twin, auth, sub, mcp, xpay>>

\* the blob is stored and transported; what comes back may be another blob
Damage(how) ==
    /\ codec.stage = "encrypted"
    /\ codec.tampered = ""
    /\ codec' = [codec EXCEPT !.blob = Damaged(codec.blob, how), !.tampered = how]
    /\ UNCHANGED <<transport, errRes, errOut, twin, auth, sub, mcp, xpay>>

\* await cmekDecrypt(blob, keyBytes)
CmekDecrypt(keyBytes) ==
    /\ codec.stage = "encrypted"
    /\ codec' = [codec EXCEPT !.stage = "decrypted",
                              !.decryptKey = keyBytes,
                              !.out = cmekDecrypt(codec.blob, keyBytes)]
    /\ UNCHANGED <<transport, errRes, errOut, twin, auth, sub, mcp, xpay>>

\* fromBase64(b64)
FromBase64 ==
    /\ codec.fn = "fromBase64"
    /\ codec.stage = "start"
    /\ codec' = [codec EXCEPT !.stage = "decoded",
                              !.out = fromBase64(codec.b64, codec.hasBuffer)]
    /\ UNCHANGED <<transport, errRes, errOut, twin, auth, sub, mcp, xpay>>

NextCodec ==
    \/ CmekEncrypt
    \/ \E how \in Damages : Damage(how)
    \/ \E k \in Keys : CmekDecrypt(k)
    \/ FromBase64

SpecCodec == InitCodec /\ [][NextCodec]_vars

\* ---------------------------------------------------------------------
\* approvals.ts 84-112: subscribe, a polling loop with an unsubscribe function
\* ---------------------------------------------------------------------
MaxPolls == 3
DefaultInterval == 3000

\* what one await of this.list comes to: an envelope with data, an error
\* envelope, or a rejection; hasApprovals: data.approvals is there;
\* callbackThrows: the callback throws when it is invoked
ListOutcomes ==
    { [kind |-> "data", hasApprovals |-> TRUE, approvals |-> a, callbackThrows |-> t] :
          a \in {<<>>, <<"a-1">>, <<"a-1", "a-2">>}, t \in BOOLEAN }
    \cup { [kind |-> k, hasApprovals |-> FALSE, approvals |-> <<>>, callbackThrows |-> FALSE] :
          k \in {"data", "error", "throws"} }

\* the time a list request or a part of a wait takes
Elapses == {0, 100, 1500, 3000}

\* the catch ends the loop
afterCatch_ends(outcome) ==
    IF outcome.kind = "throws" \/ outcome.callbackThrows THEN "ended" ELSE "sleep"

\* where the loop goes after the try statement: the catch is empty, the
\* wait follows whatever happened
afterCatch(outcome) == "sleep"

\* a client whose resources have not been used
InitResources == TransportIdle /\ AsideIdle

\* subscribe(callback, options), intervalMs being options.intervalMs or the
\* empty sequence when the option is not given; the interval is
\* options.intervalMs ?? 3000; poll() runs to its first await, so the first
\* list request is out when subscribe returns
Subscribe(intervalMs) ==
    /\ sub.pc = "none"
    /\ sub' = [sub EXCEPT !.pc = "list", !.active = TRUE,
                           !.interval = IF intervalMs = <<>> THEN DefaultInterval
                                        ELSE intervalMs[1],
                           !.polls = 1, !.inFlight = 1]
    /\ UNCHANGED <<transport, errRes, errOut, twin, auth, codec, mcp, xpay>>

\* the await of this.list settles after d milliseconds; the callback is
\* invoked when the envelope has data.approvals, and the timer is set
ListSettles(outcome, d) ==
    /\ sub.pc = "list"
    /\ sub' = [sub EXCEPT !.pc = afterCatch(outcome),
                           !.inFlight = @ - 1,
                           !.settled = @ + 1,
                           !.callbacks = IF outcome.hasApprovals THEN @ + 1 ELSE @,
                           !.lastArgs = IF outcome.hasApprovals THEN outcome.approvals ELSE @,
                           !.caught = IF outcome.kind = "throws" \/ outcome.callbackThrows
                                      THEN @ + 1 ELSE @,
                           !.now = @ + d,
                           !.doneAt = sub.now + d,
                           !.wakeAt = sub.now + d + sub.interval]
    /\ UNCHANGED <<transport, errRes, errOut, twin, auth, codec, mcp, xpay>>

\* time passes while the loop waits for its timer
Elapse(d) ==
    /\ sub.pc = "sleep"
    /\ d > 0
    /\ sub.now + d <= sub.wakeAt
    /\ sub' = [sub EXCEPT !.now = @ + d]
    /\ UNCHANGED <<transport, errRes, errOut, twin, auth, codec, mcp, xpay>>

\* the timer fires: the loop tests active, and either issues the next
\* list request or returns
TimerFires ==
    /\ sub.pc = "sleep"
    /\ sub.now >= sub.wakeAt
    /\ sub.active => sub.polls < MaxPolls
    /\ sub' = IF sub.active
               THEN [sub EXCEPT !.pc = "list", !.polls = @ + 1, !.inFlight = @ + 1]
               ELSE [sub EXCEPT !.pc = "ended"]
    /\ UNCHANGED <<transport, errRes, errOut, twin, auth, codec, mcp, xpay>>

\* the function subscribe returned
Unsubscribe ==
    /\ sub.pc # "none"
    /\ sub' = [sub EXCEPT !.active = FALSE]
    /\ UNCHANGED <<transport, errRes, errOut, twin, auth, codec, mcp, xpay>>

NextSub ==
    \/ \E intervalMs \in {<<>>, <<0>>, <<100>>} : Subscribe(intervalMs)
    \/ \E outcome \in ListOutcomes, d \in Elapses : ListSettles(outcome, d)
    \/ \E d \in Elapses : Elapse(d)
    \/ TimerFires
    \/ Unsubscribe

\* a list request settles, time passes and a due timer fires
SpecSub ==
    /\ InitResources
    /\ [][NextSub]_vars
    /\ WF_vars(\E outcome \in ListOutcomes, d \in Elapses : ListSettles(outcome, d))
    /\ WF_vars(Elapse(sub.wakeAt - sub.now))
    /\ WF_vars(TimerFires)

\* ---------------------------------------------------------------------
\* McpHandler: the dispatch of a tool call to its handler
\* ---------------------------------------------------------------------
MaxToolCalls == 2

\* the keys of the handlers map
ToolNames ==
    { "1claw_get_secret", "1claw_set_secret", "1claw_list_secret_keys",
      "1claw_delete_secret", "1claw_list_vaults", "1claw_create_vault",
      "1claw_request_approval", "1claw_check_approval_status",
      "1claw_pay_and_fetch", "1claw_share_secret" }

\* what the await of a handler comes to: a result, or a thrown value with
\* its message property and its string form, which is an Error or not
HandlerOutcomes ==
    { [threw |-> FALSE, isError |-> e, text |-> <<t>>, instanceofError |-> FALSE,
       message |-> "", string |-> ""] : e \in BOOLEAN, t \in {"ok", ""} }
    \cup { [threw |-> TRUE, isError |-> FALSE, text |-> <<>>, instanceofError |-> v[1],
             message |-> v[2], string |-> v[3]] :
            v \in { <<TRUE, "boom", "Error: boom">>, <<TRUE, "", "Error">>,
                    <<FALSE, "", "boom">>, <<FALSE, "boom", "[object Object]">> } }

\* handle(toolName, args) up to its await: a name without a handler is
\* answered at once, the handler of any other name is called
McpHandle(toolName) ==
    /\ mcp.stage \in {"none", "done"}
    /\ mcp.calls < MaxToolCalls
    /\ mcp' = IF toolName \in ToolNames
               THEN [NoMcp EXCEPT !.calls = mcp.calls + 1, !.stage = "handler",
                                  !.toolName = toolName, !.called = toolName]
               ELSE [NoMcp EXCEPT !.calls = mcp.calls + 1, !.stage = "done",
                                  !.toolName = toolName, !.how = "returned",
                                  !.isError = TRUE,
                                  !.text = <<"Unknown tool: ", toolName>>]
    /\ UNCHANGED <<transport, errRes, errOut, twin, auth, codec, sub, xpay>>

\* the handler settles: its result is returned, what it threw is caught
\* and returned as an error result
HandlerSettles(outcome) ==
    /\ mcp.stage = "handler"
    /\ mcp' = [mcp EXCEPT !.stage = "done", !.how = "returned",
                           !.isError = outcome.threw \/ outcome.isError,
                           !.text = IF ~outcome.threw THEN outcome.text
                                    ELSE IF outcome.instanceofError
                                         THEN <<"Error: ", outcome.message>>
                                         ELSE <<"Error: ", outcome.string>>]
    /\ UNCHANGED <<transport, errRes, errOut, twin, auth, codec, sub, xpay>>

NextMcp ==
    \/ \E toolName \in ToolNames \cup {"", "unknown_tool", "toString", "1CLAW_GET_SECRET"} :
           McpHandle(toolName)
    \/ \E outcome \in HandlerOutcomes : HandlerSettles(outcome)

SpecMcp == InitResources /\ [][NextMcp]_vars

\* ---------------------------------------------------------------------
\* x402.ts: withPayment, the payment flow on the resource's own fetches
\* ---------------------------------------------------------------------
\* lines 127-141 / 151-164: the result for a response that is not
\* negotiated: an error envelope, or the data envelope with the parsed body
withPaymentResult(res) ==
    IF ~ok(res)
    THEN LET err == errorFromResponse(res) IN
         IF err.threw
         THEN Result("throw", err.type, 0, NoMsg, "none", NoError, <<>>)
         ELSE Result("envelope", err.type, res.status, err.msg, "null", NoError, <<>>)
    ELSE IF ~res.parsable
    THEN Result("throw", "SyntaxError:json", 0, NoMsg, "none", NoError, <<>>)
    ELSE Result("envelope", "none", res.status, NoMsg, "body", NoError, <<>>)

\* the signer of the resource taken whatever was passed
activeSigner_configured(argSigner) == IF signer THEN "configured" ELSE ""

\* line 61: signer ?? this.signer
activeSigner(argSigner) ==
    IF argSigner THEN "argument" ELSE IF signer THEN "configured" ELSE ""

\* withPayment(vaultId, key, signer) up to its first await: the headers
\* take the token as getToken returns it and the first fetch is issued
WithPayment(argSigner) ==
    /\ xpay.pc = "none"
    /\ xpay' = [xpay EXCEPT !.pc = "first", !.argSigner = argSigner,
                             !.authorization = token, !.fetches = 1]
    /\ UNCHANGED <<transport, errRes, errOut, twin, auth, codec, sub, mcp>>

\* the first fetch settles with res, or rejects (res = NoResponse).  A
\* response other than 402 is the result.  On 402 the body is parsed and
\* pay() runs to its await: it throws without a signer and without a
\* first option, and calls signPayment otherwise
FirstAttemptSettles(res) ==
    /\ xpay.pc = "first"
    /\ LET thrown(type) == [xpay EXCEPT !.pc = "done", !.first = res,
                                !.result = Result("throw", type, 0, NoMsg, "none",
                                                  NoError, <<>>)]
       IN xpay' =
            IF res = NoResponse THEN thrown("TypeError:fetch")
            ELSE IF res.status # 402
            THEN [xpay EXCEPT !.pc = "done", !.first = res,
                              !.result = withPaymentResult(res)]
            ELSE IF ~res.parsable THEN thrown("SyntaxError:json")
            ELSE IF activeSigner(xpay.argSigner) = "" THEN thrown("Error:no signer")
            ELSE IF res.isNull THEN thrown("TypeError:null body")
            ELSE IF res.accepts = <<>> THEN thrown("Error:no accepted payment methods")
            ELSE [xpay EXCEPT !.pc = "signing", !.first = res,
                              !.signerCalls = @ + 1,
                              !.signedBy = activeSigner(xpay.argSigner),
                              !.signedWith = res.accepts[1]]
    /\ UNCHANGED <<transport, errRes, errOut, twin, auth, codec, sub, mcp>>

\* signPayment settles: its rejection leaves withPayment as it is, its
\* signature goes into the X-PAYMENT header of the retry, which is issued
SignPaymentSettles(returned) ==
    /\ xpay.pc = "signing"
    /\ xpay' =
         IF returned
         THEN [xpay EXCEPT !.pc = "retry", !.fetches = @ + 1, !.retries = @ + 1,
                           !.retryAuthorization = xpay.authorization,
                           !.xPayment = [x402Version |-> xpay.first.x402Version,
                                         scheme |-> xpay.signedWith.scheme,
                                         network |-> xpay.signedWith.network,
                                         payload |-> "sig"]]
         ELSE [xpay EXCEPT !.pc = "done",
                           !.result = Result("throw", "Error:signer", 0, NoMsg, "none",
                                             NoError, <<>>)]
    /\ UNCHANGED <<transport, errRes, errOut, twin, auth, codec, sub, mcp>>

\* the retry settles with res, or rejects (res = NoResponse): whatever
\* the response is, it is the result
PaidRetrySettles(res) ==
    /\ xpay.pc = "retry"
    /\ xpay' = [xpay EXCEPT !.pc = "done",
                             !.result = IF res = NoResponse
                                        THEN Result("throw", "TypeError:fetch", 0, NoMsg,
                                                    "none", NoError, <<>>)
                                        ELSE withPaymentResult(res)]
    /\ UNCHANGED <<transport, errRes, errOut, twin, auth, codec, sub, mcp>>

NextX402 ==
    LET Fetched == Responses \cup {NoResponse,
                                   [Response(402, TRUE, <<>>, "") EXCEPT !.isNull = TRUE]}
    IN  \/ \E argSigner \in BOOLEAN : WithPayment(argSigner)
        \/ \E res \in Fetched : FirstAttemptSettles(res)
        \/ \E returned \in BOOLEAN : SignPaymentSettles(returned)
        \/ \E res \in Fetched : PaidRetrySettles(res)

SpecX402 == Init /\ [][NextX402]_vars

\* ======================= properties =======================
Attempts == 1..MaxExchanges
Unsettled(a) == exchanges[a].state \in {"fetching", "parsing", "settled"}
Failed(a) == exchanges[a].error # NoError

\* C1: single-flight refresh.  Callers that await a refresh at the same time
\* await one and the same attempt, so one exchange call serves all of them,
\* and (no setToken call being made) each of them sends the token that this
\* exchange returned.
C1_SingleFlight ==
    /\ \A p, q \in Callers :
          (pc[p] = "ensure_wait" /\ pc[q] = "ensure_wait"
             /\ Unsettled(waitOn[p]) /\ Unsettled(waitOn[q]))
          => waitOn[p] = waitOn[q]
    /\ \A p \in Callers :
          (pc[p] = "primary" /\ waitOn[p] # 0 /\ setTokenCalls = 0)
          => bearer[p] = ExchangeToken(waitOn[p])

\* all callers have awaited the one exchange made and sent its token
C1_Witness ==
    /\ exchangeCalls = 1
    /\ setTokenCalls = 0
    /\ \A p \in Callers : pc[p] = "primary" /\ waitOn[p] = 1 /\ bearer[p] = "x1"

\* C2: a failed refresh attempt delivers its error to the caller that
\* started it and to every caller that joined it; no waiter of a failed
\* attempt goes on to its primary call.
C2_FailureReachesAllWaiters ==
    /\ \A p \in Callers :
          (waitOn[p] # 0 /\ Failed(waitOn[p])) => pc[p] = "ensure_wait"
    /\ (delivered.caller # 0 /\ delivered.waitOn # 0 /\ Failed(delivered.waitOn))
          => /\ delivered.result.how = "throw"
             /\ delivered.result.error = exchanges[delivered.waitOn].error
             /\ delivered.pay.primaryCalls = 0

\* one waiter of a failed attempt has its error, another is about to get it
C2_Witness ==
    /\ delivered.caller # 0
    /\ delivered.waitOn # 0
    /\ delivered.result.error = exchanges[delivered.waitOn].error
    /\ delivered.result.error # NoError
    /\ \E q \in Callers : q # delivered.caller /\ pc[q] = "ensure_wait"
                            /\ waitOn[q] = delivered.waitOn

\* C3: the handle is cleared when an attempt completes, by success or by
\* failure: a call that finds the token stale when every attempt made so
\* far has completed starts a new exchange and awaits that one.
C3_FreshStartAfterCompletion ==
    [][\A p \in Callers :
          (pc[p] = "idle" /\ pc'[p] # "idle" /\ ~NeedsNoRefresh
             /\ \A a \in Attempts : ~Unsettled(a))
          => (exchangeCalls' = exchangeCalls + 1 /\ waitOn'[p] = exchangeCalls + 1
              /\ exchanges'[exchangeCalls + 1].state = "fetching")]_vars

\* a second exchange is running after the first one failed
C3_Witness ==
    /\ exchanges[1].state = "rejected"
    /\ exchanges[2].state = "fetching"
    /\ refreshPromise = 2

\* C4: at most one exchange call of the refresh routine is in flight.
C4_OneExchangeInFlight ==
    Cardinality({a \in Attempts : exchanges[a].state = "fetching"}) <= 1

\* an exchange is in flight after a setToken call, with every caller waiting
C4_Witness ==
    /\ setTokenCalls > 0
    /\ \E a \in Attempts : exchanges[a].state = "fetching"
    /\ \A p \in Callers : pc[p] = "ensure_wait"

\* C5: a request that needs a refresh issues its primary call only after the
\* refresh has completed with success, and (no setToken call being made)
\* with the token that refresh installed; after a failed refresh it issues
\* no primary call and throws the refresh error.
C5_RefreshBeforePrimary ==
    /\ \A p \in Callers :
          (waitOn[p] # 0 /\ pc[p] \in {"ensured", "primary"})
          => exchanges[waitOn[p]].state = "resolved"
    /\ \A p \in Callers :
          (waitOn[p] # 0 /\ pay[p].primaryCalls > 0 /\ setTokenCalls = 0)
          => bearer[p] = ExchangeToken(waitOn[p])
    /\ (delivered.waitOn # 0 /\ delivered.pay.primaryCalls > 0 /\ setTokenCalls = 0)
          => delivered.bearer = ExchangeToken(delivered.waitOn)
    /\ (delivered.caller # 0 /\ delivered.waitOn # 0
          /\ exchanges[delivered.waitOn].state = "rejected")
          => /\ delivered.pay.primaryCalls = 0
             /\ delivered.result.how = "throw"
             /\ delivered.result.error = exchanges[delivered.waitOn].error

\* a request has issued its primary call with the token of the refresh it awaited
C5_Witness ==
    \E p \in Callers :
        /\ pc[p] = "primary"
        /\ waitOn[p] = 2
        /\ bearer[p] = "x2"
        /\ exchanges[1].state = "rejected"

\* ---- payment negotiation ----
HasOption(res) == res.status = 402 /\ res.parsable /\ Len(res.accepts) >= 1
FirstOption(res) == res.accepts[1]
FirstPrice(res) == parseFloat(FirstOption(res).price)
Limit == Num(maxAutoPayUsd)

\* the first option's price is a number at most a positive maxAutoPayUsd
Affordable(res) ==
    /\ HasOption(res)
    /\ maxAutoPayUsd > 0
    /\ ~FirstPrice(res).nan
    /\ FirstPrice(res).v <= maxAutoPayUsd

ProofOf(option) == [scheme |-> option.scheme, network |-> option.network, payload |-> "sig"]

\* C6: for a payment-required primary response whose first option costs at
\* most a positive maxAutoPayUsd, with a signer configured, the signer is
\* called once with the first option, one retry with X-PAYMENT is issued
\* when the signer returns, and the retry's response is the final response
\* whatever its status: nothing is signed or retried a second time.
C6_PayOnceRetryOnce ==
    /\ \A p \in Callers : pay[p].signerCalls <= 1 /\ pay[p].retries <= 1
    /\ \A p \in Callers :
          (signer /\ pc[p] \in {"signing", "retry"} /\ Affordable(pay[p].primaryRes))
          => /\ pay[p].signerCalls = 1
             /\ pay[p].signedWith = FirstOption(pay[p].primaryRes)
             /\ pay[p].retries = (IF pc[p] = "retry" THEN 1 ELSE 0)
             /\ pc[p] = "retry"
                  => pay[p].xPayment = [x402Version |-> pay[p].primaryRes.x402Version]
                                          @@ ProofOf(FirstOption(pay[p].primaryRes))
    /\ (signer /\ delivered.caller # 0 /\ Affordable(delivered.pay.primaryRes))
          => /\ delivered.pay.signerCalls = 1
             /\ delivered.pay.signedWith = FirstOption(delivered.pay.primaryRes)
             /\ delivered.pay.retries = (IF delivered.result.type = "Error:signer" THEN 0 ELSE 1)
             /\ delivered.final # NoResponse
                  => delivered.result = Classify(delivered.kind, delivered.final)

\* a retry that was itself answered payment-required is the final response
C6_Witness ==
    /\ delivered.caller # 0
    /\ Affordable(delivered.pay.primaryRes)
    /\ delivered.pay.signerCalls = 1
    /\ delivered.pay.retries = 1
    /\ delivered.final.status = 402
    /\ HasOption(delivered.final)
    /\ delivered.result.type = "payment_required"

\* C7: with a signer and maxAutoPayUsd = 0 a payment-required response with
\* at least one option makes the request throw a payment-required error that
\* names the price; the signer is never called and nothing is retried.
C7_AutoPayOffIsAnError ==
    (signer /\ maxAutoPayUsd = 0)
    => /\ \A p \in Callers : /\ pay[p].signerCalls = 0
                              /\ pay[p].retries = 0
                              /\ pc[p] \notin {"signing", "retry"}
       /\ (delivered.caller # 0 /\ HasOption(delivered.pay.primaryRes))
            => /\ delivered.result.how = "throw"
               /\ delivered.result.type = "payment_required"
               /\ delivered.result.msg =
                     Msg("required. Enable auto-pay", FirstPrice(delivered.pay.primaryRes), Num(0))
               /\ delivered.pay.signerCalls = 0
               /\ delivered.pay.retries = 0

\* request() has thrown the payment-required error with auto-pay switched off
C7_Witness ==
    /\ signer
    /\ maxAutoPayUsd = 0
    /\ delivered.caller # 0
    /\ delivered.kind = "request"
    /\ HasOption(delivered.pay.primaryRes)
    /\ delivered.result.how = "throw"
    /\ delivered.result.msg.a = Num(50)

\* C8: with a signer and maxAutoPayUsd > 0 a first option priced over the
\* limit makes the request throw a payment-required error naming price and
\* limit; the signer is not called and nothing is retried.
C8_OverLimitIsAnError ==
    (signer /\ maxAutoPayUsd > 0)
    => /\ \A p \in Callers :
             pc[p] \in {"signing", "retry"}
             => ~Greater(FirstPrice(pay[p].primaryRes), Limit)
       /\ (delivered.caller # 0 /\ HasOption(delivered.pay.primaryRes)
              /\ Greater(FirstPrice(delivered.pay.primaryRes), Limit))
            => /\ delivered.result.how = "throw"
               /\ delivered.result.type = "payment_required"
               /\ delivered.result.msg =
                     Msg("exceeds auto-pay limit", FirstPrice(delivered.pay.primaryRes), Limit)
               /\ delivered.pay.signerCalls = 0
               /\ delivered.pay.retries = 0

\* a price of 5.00 was refused under a limit of 1.00
C8_Witness ==
    /\ signer
    /\ maxAutoPayUsd = 100
    /\ delivered.caller # 0
    /\ HasOption(delivered.pay.primaryRes)
    /\ FirstPrice(delivered.pay.primaryRes) = Num(500)
    /\ delivered.result.msg = Msg("exceeds auto-pay limit", Num(500), Num(100))

UnparsableRequirement ==
    /\ signer
    /\ delivered.caller # 0
    /\ delivered.pay.primaryRes.status = 402
    /\ ~delivered.pay.primaryRes.parsable

\* the negotiator returned the response it was given: nothing signed, nothing
\* retried, nothing thrown by it
FailedOpen ==
    /\ delivered.final = [delivered.pay.primaryRes EXCEPT !.bodyUsed = TRUE]
    /\ delivered.pay.signerCalls = 0
    /\ delivered.pay.retries = 0
    /\ delivered.pay.primaryCalls = 1
    /\ delivered.kind = "request" => delivered.result.how = "envelope"

\* C10 as stated: the unparsable requirement fails open and reaches the
\* caller as a generic HTTP error (the error of no particular class).
C10_AsStated ==
    UnparsableRequirement => (FailedOpen /\ delivered.result.type = "unknown")

\* C10: the unparsable requirement fails open and reaches the caller
\* through the ordinary error mapping of status 402: a payment-required
\* error with the generic message HTTP 402 and no requirement in it.
C10_FailOpen ==
    UnparsableRequirement
    => /\ FailedOpen
       /\ delivered.result.type = "payment_required"
       /\ delivered.result.status = 402
       /\ delivered.result.msg = HttpMsg(402)
       /\ delivered.result.requirement = <<>>

\* request() has returned the envelope for an unparsable requirement
C10_Witness ==
    /\ UnparsableRequirement
    /\ delivered.kind = "request"
    /\ delivered.result.how = "envelope"
    /\ delivered.result.msg = HttpMsg(402)

\* the negotiator was entered for a requirement that offers nothing
EmptyRequirement ==
    /\ signer
    /\ delivered.caller # 0
    /\ delivered.pay.primaryRes.status = 402
    /\ delivered.pay.primaryRes.parsable
    /\ Len(delivered.pay.primaryRes.accepts) = 0

C12_TotalOrder ==
    [][\A p \in Callers :
          /\ pay'[p].signerCalls > pay[p].signerCalls
               => /\ pc[p] = "primary"
                  /\ pay[p].primaryCalls = 1
                  /\ pay[p].primaryRes = NoResponse
                  /\ pay'[p].primaryRes # NoResponse
          /\ pay'[p].retries > pay[p].retries
               => /\ pc[p] = "signing"
                  /\ pay[p].signerCalls = 1
                  /\ pay[p].primaryRes # NoResponse
          /\ pc'[p] = "signing" => pay'[p].retries = 0
          /\ pc'[p] = "retry" => (pay'[p].signerCalls = 1 /\ pay'[p].retries = 1)
          /\ (delivered'.caller = p /\ delivered'.final # NoResponse)
               => /\ pc[p] \in {"primary", "retry"}
                  /\ pc'[p] = "done"
                  /\ delivered'.pay.primaryCalls = 1
                  /\ delivered'.pay.primaryRes # NoResponse
                  /\ delivered'.pay.retries = (IF pc[p] = "retry" THEN 1 ELSE 0)
                  /\ delivered'.pay.signerCalls = delivered'.pay.retries
                  /\ delivered'.result = Classify(kind(p), delivered'.final)
          /\ pc[p] = "done" => (pc'[p] = "done" /\ pay'[p] = pay[p])]_vars

\* the body of the retry's response was parsed after primary call, signer
\* call and retry
C12_Witness ==
    /\ delivered.caller # 0
    /\ delivered.pay.primaryRes.status = 402
    /\ delivered.pay.signerCalls = 1
    /\ delivered.pay.retries = 1
    /\ delivered.final.status = 200
    /\ delivered.result.data = "body"

\* ---- freshness and credentials ----
\* C13: on a client with agent credentials, a call returns from ensureToken
\* without an exchange call exactly when a token is cached whose expiry is
\* more than 60 seconds after the current time; in every other case (no
\* token, expiry within 60 seconds, expiry past, expiry 0) it joins the
\* refresh in flight or, when there is none, starts one and awaits it.
C13_FreshnessRule ==
    [][\A p \in Callers :
          (agentCredentials /\ pc[p] = "idle" /\ pc'[p] # "idle")
          => IF token # NoToken /\ tokenExpiresAt - now > 60 * 1000
             THEN /\ pc'[p] = "ensured"
                  /\ waitOn'[p] = 0
                  /\ exchangeCalls' = exchangeCalls
                  /\ exchanges' = exchanges
                  /\ refreshPromise' = refreshPromise
             ELSE /\ pc'[p] = "ensure_wait"
                  /\ IF refreshPromise # 0
                     THEN /\ waitOn'[p] = refreshPromise
                          /\ exchangeCalls' = exchangeCalls
                     ELSE /\ exchangeCalls' = exchangeCalls + 1
                          /\ waitOn'[p] = exchangeCalls'
                          /\ refreshPromise' = exchangeCalls'
                          /\ exchanges'[exchangeCalls'].state = "fetching"]_vars

\* a call found the token of the first exchange with exactly 60 seconds
\* left and started a second exchange
C13_Witness ==
    /\ agentCredentials
    /\ token = "x1"
    /\ tokenExpiresAt - now = 60 * 1000
    /\ exchanges[2].state = "fetching"
    /\ \E p \in Callers : pc[p] = "ensure_wait" /\ waitOn[p] = 2

\* C14: on a client whose agentId and apiKey are not both set, ensureToken
\* does nothing in any state: every call returns from it at once, no step
\* ever starts an exchange or sets the refresh handle, and token and expiry
\* change only in a setToken call (by user code or by the constructor's
\* then() callback), which stores the token with the expiry decoded from it.
C14_NoCredentialsNoRefresh ==
    [][~(agentId /\ apiKey)
       => /\ exchangeCalls' = 0
          /\ refreshPromise' = 0
          /\ \A a \in Attempts : exchanges'[a] = NoExchange
          /\ \A p \in Callers :
                (pc[p] = "idle" /\ pc'[p] # "idle")
                => (pc'[p] = "ensured" /\ waitOn'[p] = 0)
          /\ \A p \in Slots : pc'[p] # "ensure_wait"
          /\ (token' # token \/ tokenExpiresAt' # tokenExpiresAt)
                => /\ \/ setTokenCalls' = setTokenCalls + 1
                      \/ (pc[Boot] = "then_data" /\ pc'[Boot] = "done" /\ token' = BootToken)
                   /\ tokenExpiresAt' = decodeExpiry(token')]_vars

\* with an agentId and no apiKey a request went out with a token that
\* setToken stored with expiry 0, and nothing was exchanged
C14_Witness ==
    /\ agentId
    /\ ~apiKey
    /\ setTokenCalls = 1
    /\ token = "u_twoparts"
    /\ tokenExpiresAt = 0
    /\ exchangeCalls = 0
    /\ \E p \in Callers : pc[p] = "primary" /\ bearer[p] = "u_twoparts"

\* a token with no readable expiry: not three parts, a payload that does not
\* decode, or no numeric exp
Unparsable(t) ==
    \/ JwtShape(t).parts # 3
    \/ ~JwtShape(t).decodable
    \/ ~JwtShape(t).expIsNumber

\* the cached token is one that setToken stored without a readable expiry
UnparsableTokenSet ==
    /\ setTokenCalls > 0
    /\ token \in UserTokens \cup OddTokens
    /\ Unparsable(token)

\* C15 as stated: setToken with an unparsable token stores expiry 0, and the
\* next call of ensureToken on any client starts or joins a refresh.
C15_AsStated ==
    [][/\ (setTokenCalls' = setTokenCalls + 1 /\ Unparsable(token'))
            => tokenExpiresAt' = 0
       /\ \A p \in Callers :
            (UnparsableTokenSet /\ pc[p] = "idle" /\ pc'[p] # "idle")
            => (pc'[p] = "ensure_wait" /\ waitOn'[p] # 0)]_vars

\* C15: setToken with an unparsable token stores expiry 0; on a client with
\* agent credentials the next call of ensureToken starts or joins a refresh
\* and does not go on with that token, and on a client without them it
\* returns at once and the token is used as it is.
C15_UnparsableTokenIsStale ==
    [][/\ (setTokenCalls' = setTokenCalls + 1 /\ Unparsable(token'))
            => tokenExpiresAt' = 0
       /\ \A p \in Callers :
            (UnparsableTokenSet /\ pc[p] = "idle" /\ pc'[p] # "idle")
            => /\ tokenExpiresAt = 0
               /\ IF agentCredentials
                  THEN pc'[p] = "ensure_wait" /\ waitOn'[p] # 0
                  ELSE pc'[p] = "ensured" /\ waitOn'[p] = 0]_vars

\* setToken stored a token whose payload does not decode, and a call made
\* with it cached awaits an exchange
C15_Witness ==
    /\ agentCredentials
    /\ setTokenCalls = 1
    /\ token = "u_badpayload"
    /\ tokenExpiresAt = 0
    /\ \E p \in Callers : pc[p] = "ensure_wait" /\ exchanges[waitOn[p]].state = "fetching"

\* an attempt failed because the exchange endpoint answered a non-success status
Rejected(a) == exchanges[a].error.type = "Error:Agent token refresh failed"

\* C16: an exchange answered with a non-success status reaches the caller
\* as an error of type auth_error, and the next call on the client, made
\* when the failed attempt has completed, starts a new exchange.
C16_ExchangeFailureIsAuthError ==
    [][/\ (delivered'.caller # 0 /\ delivered'.waitOn # 0 /\ Rejected(delivered'.waitOn))
            => (delivered'.result.how = "throw" /\ delivered'.result.type = "auth_error")
       /\ \A p \in Callers :
            (pc[p] = "idle" /\ pc'[p] # "idle" /\ ~NeedsNoRefresh
               /\ \A a \in Attempts : ~Unsettled(a))
            => exchanges'[exchangeCalls + 1].state = "fetching"]_vars

\* C17: token and expiry are written together.  Every step that changes the
\* token or the expiry is one install: the success of an exchange, which
\* stores that exchange's token with the expiry computed from its
\* expires_in, or a setToken call, which stores a token with the expiry
\* decoded from it; so no step leaves a new token with the expiry of the
\* previous one, or a new expiry with the previous token.
C17_AtomicInstall ==
    [][(token' # token \/ tokenExpiresAt' # tokenExpiresAt)
       => \/ \E a \in Attempts :
                /\ exchanges[a].state = "parsing"
                /\ exchanges'[a].state = "settled"
                /\ token' = ExchangeToken(a)
                /\ \E e \in ExpiresIn : tokenExpiresAt' = now + e * 1000
          \/ /\ \/ setTokenCalls' = setTokenCalls + 1
                \/ (pc[Boot] = "then_data" /\ pc'[Boot] = "done")
             /\ token' \in UserTokens \cup OddTokens \cup {NoToken, BootToken}
             /\ tokenExpiresAt' = decodeExpiry(token')
             /\ exchanges' = exchanges]_vars

\* after a setToken call an exchange has installed its token with an expiry
\* of its own, and a caller is about to be resumed
C17_Witness ==
    /\ setTokenCalls = 1
    /\ token = "x1"
    /\ tokenExpiresAt = now + 30 * 1000
    /\ exchanges[1].state = "settled"
    /\ \E p \in Callers : pc[p] = "ensure_wait" /\ waitOn[p] = 1

\* ---- construction of the client ----
\* C18: on a client constructed with a user API key and no token, a request
\* issues its primary call only when the key exchange the constructor
\* started has completed, and with the token that exchange returned.
C18_FirstRequestAwaitsStartup ==
    (pc[Boot] # "absent" /\ setTokenCalls = 0)
    => \A p \in Callers :
          pay[p].primaryCalls > 0
          => /\ pc[Boot] = "done"
             /\ bearer[p] = token

FreshlyConstructed ==
    /\ \A p \in Callers : pc[p] = "idle"
    /\ pc[Boot] \in {"absent", "ensured"}
    /\ setTokenCalls = 0
    /\ now = 0

PaymentRequiredOutcome ==
    /\ delivered.caller # 0
    /\ delivered.result.type = "payment_required"
    /\ HasOption(delivered.pay.primaryRes)
    /\ delivered.pay.signerCalls = 0
    /\ \/ ~signer
       \/ signer /\ maxAutoPayUsd = 0
       \/ signer /\ maxAutoPayUsd > 0 /\ Greater(FirstPrice(delivered.pay.primaryRes), Limit)

\* C21 as stated: every request that ends payment-required (no signer,
\* auto-pay off, price over the limit) delivers an error that carries the
\* requirement the server sent.
C21_AsStated ==
    PaymentRequiredOutcome
    => delivered.result.requirement = delivered.pay.primaryRes.accepts

\* C21: a request that ends payment-required (no signer, auto-pay off, price
\* over the limit) by a thrown error delivers the requirement the server
\* sent in that error; the one such outcome that is not thrown, the envelope
\* request() returns when no signer is configured, has type, message and
\* status 402 and no requirement.
C21_ThrownErrorCarriesRequirement ==
    PaymentRequiredOutcome
    => /\ (delivered.result.how = "envelope") <=> (~signer /\ delivered.kind = "request")
       /\ delivered.result.how \in {"envelope", "throw"}
       /\ delivered.result.status = 402
       /\ IF delivered.result.how = "throw"
          THEN delivered.result.requirement = delivered.pay.primaryRes.accepts
          ELSE delivered.result.requirement = <<>>

\* requestOrThrow() without a signer has thrown an error that holds the two
\* options of the requirement
C21_Witness ==
    /\ PaymentRequiredOutcome
    /\ ~signer
    /\ delivered.kind = "requestOrThrow"
    /\ delivered.result.how = "throw"
    /\ Len(delivered.result.requirement) = 2
    /\ delivered.result.requirement = delivered.pay.primaryRes.accepts

\* a request has ended after its signer was called (the price had passed the
\* check against maxAutoPayUsd) without a success response to its retry
PaymentAttemptFailed ==
    /\ delivered.caller # 0
    /\ delivered.pay.signerCalls = 1
    /\ ~(delivered.final # NoResponse /\ ok(delivered.final))

C23_TotalClassification ==
    errOut # NoErrOut
    => /\ ~errOut.threw
       /\ errOut.status = errRes.status
       /\ errOut.type =
             (CASE errRes.status = 400 -> "validation_error"
                [] errRes.status \in {401, 403} -> "auth_error"
                [] errRes.status = 402 -> "payment_required"
                [] errRes.status = 404 -> "not_found"
                [] errRes.status = 429 -> "rate_limit"
                [] errRes.status >= 500 -> "server_error"
                [] OTHER -> "unknown")
       /\ errRes.status = 429
            => /\ errRes.retryAfter = NoHeader => ~errOut.retryAfterMs.defined
               /\ errRes.retryAfter = "0" => errOut.retryAfterMs = [defined |-> TRUE, ms |-> Num(0)]
               /\ errRes.retryAfter = "5" => errOut.retryAfterMs = [defined |-> TRUE, ms |-> Num(5000)]
       /\ ~errRes.parsable => errOut.msg = HttpMsg(errRes.status)

\* C24: every envelope that request() returns is well formed.  It is made
\* from the final response of the request and meta.status is the status of
\* that response; for a non-success response data is null and error has the
\* type of the status (401 auth_error, 402 payment_required, 500
\* server_error); for a success response error is null; a response with
\* status 204 gives data null and error null without its body being parsed,
\* so also when the body is not JSON; and no envelope has data and error
\* both non-null.
C24_EnvelopeWellFormed ==
    /\ delivered.result.how = "envelope"
          => /\ delivered.kind = "request"
             /\ delivered.final # NoResponse
             /\ delivered.result.status = delivered.final.status
             /\ delivered.result.data \in {"null", "body"}
             /\ ~ok(delivered.final)
                  => /\ delivered.result.data = "null"
                     /\ delivered.result.type =
                           (CASE delivered.final.status \in {401, 403} -> "auth_error"
                              [] delivered.final.status = 402 -> "payment_required"
                              [] delivered.final.status >= 500 -> "server_error"
                              [] OTHER -> "unknown")
             /\ ok(delivered.final) => delivered.result.type = "none"
             /\ ~(delivered.result.data # "null" /\ delivered.result.type # "none")
    /\ (delivered.caller # 0 /\ delivered.kind = "request" /\ delivered.final.status = 204)
          => /\ delivered.result.how = "envelope"
             /\ delivered.result.data = "null"
             /\ delivered.result.type = "none"
             /\ delivered.result.status = 204

\* request() returned the envelope of a retry answered 204 with no body
C24_Witness ==
    /\ delivered.kind = "request"
    /\ delivered.result.how = "envelope"
    /\ delivered.pay.retries = 1
    /\ delivered.final.status = 204
    /\ ~delivered.final.parsable
    /\ delivered.result.data = "null"
    /\ delivered.result.type = "none"

\* ---- request() and requestOrThrow() ----
\* C25: requestOrThrow() is request() except for the delivery of the
\* outcome.  Run from the same client state, with the exchange endpoint, the
\* resource server, the network and the signer behaving the same, the second
\* makes no call the first did not make; when it ends it has made the same
\* exchange, primary, signer and retry calls with the same bearer, option and
\* proof, and has left token, expiry, refresh handle and exchanges as the
\* first left them.  It throws the error made from the final response
\* exactly when request() returned an envelope with an error, of the same
\* type, status and message; it returns exactly when request() returned an
\* envelope without error, the parsed body when request() returned it as
\* data; and whatever request() throws, it throws too.
C25_SameExceptDelivery ==
    twin.phase = "second"
    => LET f == twin.first IN
       /\ pay[2].primaryCalls <= f.pay.primaryCalls
       /\ pay[2].signerCalls <= f.pay.signerCalls
       /\ pay[2].retries <= f.pay.retries
       /\ exchangeCalls <= twin.after.exchangeCalls
       /\ pay[2].primaryCalls = 1 => bearer[2] = f.bearer
       /\ pay[2].signerCalls = 1 => pay[2].signedWith = f.pay.signedWith
       /\ pay[2].retries = 1 => pay[2].xPayment = f.pay.xPayment
       /\ delivered.caller = 2
            => LET r1 == f.result
                   r2 == delivered.result
               IN /\ delivered.pay = f.pay
                  /\ delivered.bearer = f.bearer
                  /\ delivered.waitOn = f.waitOn
                  /\ delivered.final = f.final
                  /\ StoreOf(token, tokenExpiresAt, refreshPromise, exchanges, exchangeCalls)
                        = twin.after
                  /\ (r1.how = "envelope" /\ r1.type # "none")
                        <=> (r2.how = "throw" /\ f.final # NoResponse /\ ~ok(f.final))
                  /\ (r1.how = "envelope" /\ r1.type # "none")
                        => (r2.type = r1.type /\ r2.status = r1.status /\ r2.msg = r1.msg)
                  /\ (r1.how = "envelope" /\ r1.type = "none") <=> r2.how = "return"
                  /\ r1.data = "body" <=> r2.data = "body"
                  /\ r1.how = "throw" => r2 = r1

\* both handlers paid for the resource and got its body: request() in an
\* envelope, requestOrThrow() as its return value
C25_Witness ==
    /\ twin.phase = "second"
    /\ delivered.caller = 2
    /\ delivered.result.how = "return"
    /\ delivered.result.data = "body"
    /\ delivered.pay.retries = 1
    /\ twin.first.result.how = "envelope"
    /\ twin.after.exchangeCalls = 1
    /\ exchangeCalls = 1

\* ---- AuthResource ----
ThenStates == {"then_data", "then_null", "then_error"}

\* a step in which an exchange installs its token
ExchangeInstalls ==
    \E a \in Attempts : exchanges[a].state = "parsing" /\ exchanges'[a].state = "settled"

\* C26: login, signup, agentToken, apiKeyToken and google store the token
\* of the response on the transport when, and only when, request() returned
\* a success envelope whose data has an access_token: the step in which the
\* method returns makes it the cached token (what getToken() returns), with
\* the expiry decoded from it, and leaves token and expiry as they were for
\* an error envelope and for data without access_token, as does a request()
\* that throws.  The stored token stays cached until a setToken call or an
\* exchange replaces it, and a request that issues its call while it is
\* cached sends it as bearer.
C26_StoresTokenOnSuccessOnly ==
    [][auth.method \in AuthMethods
       => /\ (pc[1] \in ThenStates /\ pc'[1] = "done")
               => IF pc[1] = "then_data" /\ auth'.got # NoToken
                  THEN /\ auth'.got \in AccessTokens
                       /\ token' = auth'.got
                       /\ tokenExpiresAt' = decodeExpiry(auth'.got)
                  ELSE /\ token' = token
                       /\ tokenExpiresAt' = tokenExpiresAt
          /\ (pc[1] \notin ThenStates /\ pc'[1] # pc[1])
               => (token' = token /\ tokenExpiresAt' = tokenExpiresAt)
          /\ (delivered'.caller = 1 /\ delivered'.result.how = "envelope")
               => pc'[1] = (IF delivered'.result.type # "none" THEN "then_error"
                            ELSE IF delivered'.result.data = "body" THEN "then_data"
                            ELSE "then_null")
          /\ (auth.phase = "returned" /\ auth.got # NoToken /\ token = auth.got)
               => /\ token' # token
                       => \/ setTokenCalls' = setTokenCalls + 1
                          \/ agentCredentials /\ ExchangeInstalls
                  /\ \A p \in Callers \ {1} :
                       (pc[p] = "ensured" /\ pc'[p] = "primary") => bearer'[p] = auth.got]_vars

\* google() has stored the token of its response, and a request made with
\* requestOrThrow() has sent it
C26_Witness ==
    /\ auth.method = "google"
    /\ auth.phase = "returned"
    /\ auth.saw = "then_data"
    /\ auth.got = "a1"
    /\ token = "a1"
    /\ tokenExpiresAt = 180 * 1000
    /\ pc[2] = "primary"
    /\ bearer[2] = "a1"

\* C27: logout() discards the credential.  In the step in which logout()
\* returns, for an envelope of success and for an error envelope alike, the
\* token becomes the empty string and its expiry 0; on a client without
\* agent credentials it stays so until setToken is called, a request made
\* meanwhile does nothing in ensureToken and issues its call with no
\* Authorization header.
C27_LogoutDiscards ==
    [][auth.method = "logout"
       => /\ (pc[1] \in ThenStates /\ pc'[1] = "done")
               => (token' = NoToken /\ tokenExpiresAt' = 0 /\ auth'.phase = "returned")
          /\ (delivered'.caller = 1 /\ delivered'.result.how = "envelope")
               => pc'[1] \in ThenStates
          /\ (auth.phase = "returned" /\ ~agentCredentials /\ token = NoToken)
               => /\ token' # NoToken => setTokenCalls' = setTokenCalls + 1
                  /\ \A p \in Callers \ {1} :
                       /\ (pc[p] = "idle" /\ pc'[p] # "idle")
                            => (pc'[p] = "ensured" /\ exchangeCalls' = exchangeCalls)
                       /\ (pc[p] = "ensured" /\ pc'[p] = "primary")
                            => bearer'[p] = NoToken]_vars

\* the server rejected the revocation; logout() has cleared a token that
\* setToken had stored, and a request has gone out without a bearer
C27_Witness ==
    /\ auth.method = "logout"
    /\ auth.phase = "returned"
    /\ auth.saw = "then_error"
    /\ ~agentCredentials
    /\ setTokenCalls = 1
    /\ token = NoToken
    /\ tokenExpiresAt = 0
    /\ pc[2] = "primary"
    /\ bearer[2] = NoToken

\* C28: round-trip law.  For every plaintext, the empty one included, and
\* every 32-byte key, cmekDecrypt of the blob that cmekEncrypt returned,
\* under the same key, returns the plaintext.
C28_RoundTrip ==
    (/\ codec.fn = "cmek"
     /\ codec.stage = "decrypted"
     /\ codec.tampered = ""
     /\ codec.keyBytes.len = 32
     /\ codec.decryptKey = codec.keyBytes)
    => (codec.out.threw = "" /\ codec.out.bytes = codec.plaintext)

\* the empty plaintext has made a blob of 29 bytes and has come back
C28_Witness ==
    /\ codec.fn = "cmek"
    /\ codec.stage = "decrypted"
    /\ codec.tampered = ""
    /\ codec.keyBytes.len = 32
    /\ codec.decryptKey = codec.keyBytes
    /\ codec.plaintext = <<>>
    /\ Len(codec.blob) = 29
    /\ codec.out = Returned(<<>>, 2)

\* C29: cmekDecrypt rejects a malformed blob before any cryptographic step
\* and returns nothing of it.  A blob of fewer than 29 bytes fails with
\* "CMEK blob too short" whatever its first byte and whatever the key; a
\* blob of 29 bytes or more whose first byte is not 0x01 fails with the
\* version error; in both cases no call to crypto.subtle has been made.
C29_MalformedRejected ==
    (codec.fn = "cmek" /\ codec.stage = "decrypted")
    => /\ Len(codec.blob) < 29
            => codec.out = Thrown("CMEK blob too short", 0)
       /\ (Len(codec.blob) >= 29 /\ codec.blob[1] # 1)
            => codec.out = Thrown("Unsupported CMEK version", 0)
       /\ codec.out.threw # "" => codec.out.bytes = <<>>

\* a blob of 28 bytes whose first byte is 2, given with a key of 31 bytes,
\* has been rejected as too short
C29_Witness ==
    /\ codec.fn = "cmek"
    /\ codec.stage = "decrypted"
    /\ Len(codec.blob) = 28
    /\ codec.blob[1] = 2
    /\ codec.decryptKey.len = 31
    /\ codec.out = Thrown("CMEK blob too short", 0)

\* standard base64 (RFC 4648, section 4): groups of four characters of the
\* alphabet, the last group padded with one or two "="
WellFormedBase64(b64) ==
    LET data == BeforePadding(b64)
    IN  /\ Len(b64) % 4 = 0
        /\ Len(b64) - Len(data) <= 2
        /\ Len(data) < Len(b64) => Len(data) > 0
        /\ \A i \in 1..Len(data) : B64Index(data[i]) < 64
        /\ \A i \in Len(data) + 1..Len(b64) : b64[i] = "="

\* C30: fromBase64 rejects every input that is not well-formed standard
\* base64 with an error; it never returns the bytes of a part of it.
C30_RejectsMalformed ==
    (codec.fn = "fromBase64" /\ codec.stage = "decoded" /\ ~WellFormedBase64(codec.b64))
    => (codec.out.threw # "" /\ codec.out.bytes = <<>>)

\* C34: auto-pay bound.  Across every sequence of calls the signer is
\* invoked only when maxAutoPayUsd is positive and the price of the first
\* option parses to a number that is at most maxAutoPayUsd; a price that is
\* not a number, or a zero or negative maxAutoPayUsd, leads to no signing
\* call.
C34_AutoPayBound ==
    [][\A p \in Callers :
         pay'[p].signerCalls > pay[p].signerCalls
            => Affordable(pay'[p].primaryRes)]_vars

\* C35: a failed refresh attempt changes nothing but the in-flight handle.
\* No step of an attempt that fails changes the cached token or the cached
\* expiry: the step in which the attempt fails leaves both, the only step of
\* an attempt that writes them is the installation after a parsed body, and
\* an attempt that has installed does not fail afterwards; the step that
\* ends a failed attempt changes the handle and the attempt's promise only.
C35_FailedRefreshKeepsToken ==
    [][\A a \in Attempts :
         /\ (exchanges'[a] # exchanges[a]
               /\ (token' # token \/ tokenExpiresAt' # tokenExpiresAt))
              => /\ exchanges[a].state = "parsing"
                 /\ exchanges'[a].state = "settled"
                 /\ exchanges'[a].error = NoError
         /\ exchanges[a].state \in {"settled", "resolved", "rejected"}
              => exchanges'[a].error = exchanges[a].error
         /\ (exchanges[a].state = "settled" /\ Failed(a) /\ exchanges'[a] # exchanges[a])
              => /\ exchanges'[a].state = "rejected"
                 /\ refreshPromise' = 0
                 /\ UNCHANGED <<config, token, tokenExpiresAt, exchangeCalls, now,
                                setTokenCalls, pc, waitOn, bearer, pay>>]_vars

\* the first attempt installed a token that is stale at once; the second
\* attempt was rejected by the server and has ended: token and expiry are
\* those of the first attempt and the handle is cleared
C35_Witness ==
    /\ exchanges[2].state = "rejected"
    /\ exchanges[2].error = RefreshError(2, 401)
    /\ token = ExchangeToken(1)
    /\ tokenExpiresAt = 30 * 1000
    /\ setTokenCalls = 0
    /\ refreshPromise = 0

\* C36: the payment retry is the original request plus the proof and
\* nothing else.  The step that issues a retry sends it to the URL of the
\* primary call with the same method, the same body and the same headers,
\* the Authorization value and the Idempotency-Key of the primary call
\* among them, and adds X-PAYMENT only, whose content is the requirement's
\* protocol version, scheme and network of the first option and the
\* signature that the signer returned.
C36_RetryIsOriginalPlusProof ==
    [][\A p \in Callers :
         pay'[p].retries > pay[p].retries
            => /\ pay'[p].retryInit = pay[p].init
               /\ pay'[p].init = pay[p].init
               /\ pay[p].init.path = pay[p].path
               /\ pay[p].init.authorization = bearer[p]
               /\ pay[p].init.method = requestOptions(p).method
               /\ pay[p].init.body = requestOptions(p).body
               /\ pay[p].init.idempotencyKey = requestOptions(p).idempotencyKey
               /\ pay'[p].xPayment =
                     [x402Version |-> pay[p].primaryRes.x402Version,
                      scheme |-> pay[p].primaryRes.accepts[1].scheme,
                      network |-> pay[p].primaryRes.accepts[1].network,
                      payload |-> "sig"]]_vars

\* a POST with a body and an Idempotency-Key was answered payment-required
\* with protocol version 2; setToken replaced the cached token while the
\* signer was at work, and the retry has gone out with the Authorization of
\* the primary call
C36_Witness ==
    /\ pc[1] = "retry"
    /\ pay[1].retries = 1
    /\ pay[1].retryInit = [method |-> "POST", path |-> "/v1/resource", body |-> "tx",
                           idempotencyKey |-> "key", authorization |-> NoToken]
    /\ token # NoToken
    /\ setTokenCalls = 1
    /\ pay[1].xPayment = [x402Version |-> 2, scheme |-> "exact", network |-> "base",
                          payload |-> "sig"]

\* C37: a token supplied at construction is treated like one installed with
\* setToken.  On a client with agent credentials, a request made while the
\* supplied token is the cached one and the expiry embedded in it is more
\* than 60 seconds away goes on with that token and starts no exchange.
C37_ConstructorTokenHonoured ==
    [][\A p \in Callers :
         (/\ pc[p] = "idle"
          /\ pc'[p] # "idle"
          /\ agentCredentials
          /\ setTokenCalls = 0
          /\ exchangeCalls = 0
          /\ token # NoToken
          /\ now < decodeExpiry(token) - REFRESH_BUFFER_MS)
         => (pc'[p] = "ensured" /\ exchangeCalls' = 0)]_vars

\* C38: every request() or requestOrThrow() call terminates, provided each
\* network call and the signer call it issues completes, and it issues at
\* most three network calls: at most one token exchange (started in the
\* step in which the request is called and in no other), exactly one
\* primary call unless the refresh failed, when there is none, and at most
\* one payment retry.
C38_TerminatesWithinThreeCalls ==
    /\ \A p \in Callers : (pc[p] \notin {"idle", "done"}) ~> (pc[p] = "done")
    /\ [](\A p \in Callers :
            /\ pay[p].primaryCalls <= 1
            /\ pay[p].retries <= 1
            /\ pay[p].retries = 1 => pay[p].primaryCalls = 1)
    /\ [](delivered.caller # 0
            => /\ delivered.pay.primaryCalls
                     = (IF delivered.result.error # NoError THEN 0 ELSE 1)
               /\ delivered.pay.retries <= delivered.pay.primaryCalls)
    /\ [][/\ exchangeCalls' # exchangeCalls
             => /\ exchangeCalls' = exchangeCalls + 1
                /\ \E p \in Callers :
                     /\ pc[p] = "idle"
                     /\ pc'[p] = "ensure_wait"
                     /\ waitOn'[p] = exchangeCalls'
                     /\ \A q \in Callers \ {p} : pc'[q] = pc[q]
          /\ \A p \in Callers :
               /\ pay'[p].primaryCalls > pay[p].primaryCalls => pc[p] = "ensured"
               /\ pay'[p].retries > pay[p].retries => pc[p] = "signing"
               /\ pc[p] = "done" => pc'[p] = "done"]_vars

\* a request has ended after three network calls: the exchange it started,
\* its primary call and its retry
C38_Witness ==
    /\ delivered.caller = 1
    /\ pc[1] = "done"
    /\ pc[2] = "idle"
    /\ exchangeCalls = 1
    /\ exchanges[1].state = "resolved"
    /\ delivered.pay.primaryCalls = 1
    /\ delivered.pay.retries = 1
    /\ delivered.final # NoResponse


\* C31: a subscription polls repeatedly: the first list request is out when
\* subscribe returns, every later one starts when intervalMs has passed
\* since the one before it settled and none is in flight; the callback is
\* invoked once with the approvals of every poll that delivers them and of
\* no other; a poll that fails or throws is followed by the wait like any
\* other, so that only the unsubscribe function ends the loop
C31_PollsRepeatedly ==
    /\ [](sub.inFlight <= 1)
    /\ [][sub.pc = "none" /\ sub'.pc # "none" =>
              sub'.polls = 1 /\ sub'.inFlight = 1 /\ sub'.now = sub.now]_vars
    /\ [][sub.pc # "none" /\ sub'.polls # sub.polls =>
              /\ sub'.polls = sub.polls + 1
              /\ sub.active
              /\ sub.inFlight = 0
              /\ sub.now >= sub.doneAt + sub.interval]_vars
    /\ [][sub'.settled # sub.settled =>
              \E outcome \in ListOutcomes :
                  /\ ListSettles(outcome, sub'.now - sub.now)
                  /\ IF outcome.kind = "data" /\ outcome.hasApprovals
                      THEN sub'.callbacks = sub.callbacks + 1
                           /\ sub'.lastArgs = outcome.approvals
                      ELSE sub'.callbacks = sub.callbacks
                           /\ sub'.lastArgs = sub.lastArgs]_vars
    /\ [][sub'.settled = sub.settled => sub'.callbacks = sub.callbacks]_vars
    /\ [][sub'.pc = "ended" => ~sub.active]_vars
    /\ \A n \in 1..(MaxPolls - 1) :
           (sub.active /\ sub.polls = n) ~> (~sub.active \/ sub.polls = n + 1)

\* a subscription that outlived a rejected list request and a throwing
\* callback, and delivered the approvals of a third poll after them
C31_Witness ==
    /\ sub.active
    /\ sub.polls = 3
    /\ sub.settled = 3
    /\ sub.callbacks = 2
    /\ sub.caught = 2
    /\ sub.lastArgs = <<"a-1", "a-2">>
    /\ sub.interval = 100
    /\ sub.now >= 200


\* C32: once the unsubscribe function has been called the callback is not
\* invoked again, no list request is started, and the loop comes to its end
C32_UnsubscribeStops ==
    /\ [][~sub.active /\ sub.pc # "none" => sub'.callbacks = sub.callbacks]_vars
    /\ [][~sub.active /\ sub.pc # "none" => sub'.polls = sub.polls]_vars
    /\ (~sub.active /\ sub.pc # "none") ~> sub.pc = "ended"

\* the part of C32 that the loop keeps: after unsubscribe no list request
\* is started and the loop comes to its end
UnsubscribeEndsLoop ==
    /\ [][~sub.active /\ sub.pc # "none" => sub'.polls = sub.polls]_vars
    /\ (~sub.active /\ sub.pc # "none") ~> sub.pc = "ended"

\* the callback is delivered the approvals of a list request that was in
\* flight when the unsubscribe function was called
CallbackAfterUnsubscribe ==
    /\ ~sub.active
    /\ sub.pc = "sleep"
    /\ sub.polls = 1
    /\ sub.callbacks = 1
    /\ sub.lastArgs = <<"a-1">>


\* C33: handle calls the handler registered under the tool's name, and a
\* call with a name that has no handler throws
C33_UnknownToolThrows ==
    /\ mcp.stage # "none" /\ mcp.toolName \in ToolNames => mcp.called = mcp.toolName
    /\ mcp.stage = "done" /\ mcp.toolName \notin ToolNames =>
           mcp.how = "threw" /\ mcp.called = ""

\* what handle does with a name that has no handler: no handler is called
\* and an error result naming the tool is returned
UnknownToolAnswered ==
    mcp.stage = "done" /\ mcp.toolName \notin ToolNames =>
        /\ mcp.how = "returned"
        /\ mcp.called = ""
        /\ mcp.isError
        /\ mcp.text = <<"Unknown tool: ", mcp.toolName>>


\* C39: withPayment makes at most two fetches and leaves the token and its
\* refresh alone; a first response other than 402 is the result and no
\* signer is called; on a payment requirement with a signer at hand the
\* signer is called once with the first option whatever maxAutoPayUsd is,
\* and its signature is sent in the X-PAYMENT header of one retry, whose
\* response is the result; without a signer or without an option the call
\* throws and nothing is retried
C39_WithPaymentCalls ==
    [][/\ exchangeCalls' = exchangeCalls
       /\ refreshPromise' = refreshPromise
       /\ token' = token
       /\ tokenExpiresAt' = tokenExpiresAt
       /\ xpay'.fetches <= 2
       /\ xpay'.signerCalls <= 1
       /\ xpay.pc = "first" /\ xpay'.first.status # 402 =>
              /\ xpay'.pc = "done"
              /\ xpay'.fetches = 1
              /\ xpay'.signerCalls = 0
              /\ xpay'.first # NoResponse => xpay'.result = withPaymentResult(xpay'.first)
       /\ xpay.pc = "first" /\ xpay'.first.status = 402 =>
              IF /\ xpay.argSigner \/ signer
                 /\ xpay'.first.parsable
                 /\ ~xpay'.first.isNull
                 /\ Len(xpay'.first.accepts) >= 1
              THEN /\ xpay'.pc = "signing"
                   /\ xpay'.signerCalls = 1
                   /\ xpay'.signedWith = xpay'.first.accepts[1]
                   /\ xpay'.fetches = 1
              ELSE /\ xpay'.pc = "done"
                   /\ xpay'.result.how = "throw"
                   /\ xpay'.signerCalls = 0
                   /\ xpay'.fetches = 1
       /\ xpay.pc = "signing" =>
              \/ /\ xpay'.pc = "retry"
                 /\ xpay'.fetches = 2
                 /\ xpay'.retries = 1
                 /\ xpay'.retryAuthorization = xpay.authorization
                 /\ xpay'.xPayment = [x402Version |-> xpay.first.x402Version,
                                      scheme |-> xpay.signedWith.scheme,
                                      network |-> xpay.signedWith.network,
                                      payload |-> "sig"]
              \/ /\ xpay'.pc = "done"
                 /\ xpay'.result.how = "throw"
                 /\ xpay'.result.type = "Error:signer"
                 /\ xpay'.fetches = 1
       /\ xpay.pc # "signing" => xpay'.retries = xpay.retries
       /\ xpay.pc = "retry" =>
              /\ xpay'.pc = "done"
              /\ xpay'.fetches = 2
              /\ xpay'.signerCalls = 1
              /\ xpay'.retries = 1
              /\ xpay'.result.how = "envelope" =>
                     \E res \in Responses : xpay'.result = withPaymentResult(res)
       /\ xpay.pc = "done" => xpay' = xpay
      ]_vars

\* an agent's client without a token, without a signer of its own and
\* with auto-pay off: withPayment, given a signer, paid the first option
\* of a requirement over two fetches and no exchange
C39_Witness ==
    /\ agentCredentials
    /\ ~signer
    /\ maxAutoPayUsd = 0
    /\ token = NoToken
    /\ exchangeCalls = 0
    /\ xpay.pc = "done"
    /\ xpay.argSigner
    /\ xpay.signedBy = "argument"
    /\ xpay.first.status = 402
    /\ Len(xpay.first.accepts) = 2
    /\ xpay.signedWith = xpay.first.accepts[1]
    /\ xpay.signerCalls = 1
    /\ xpay.fetches = 2
    /\ xpay.retries = 1
    /\ xpay.xPayment.payload = "sig"
    /\ xpay.xPayment.x402Version = 2
    /\ xpay.result.how = "envelope"
    /\ xpay.result.status = 200

====
